---- MODULE Spec2Model ----
(***************************************************************************)
(* proxycheck-sdk: the HTTP request execution engine (src/src/http/index.ts *)
(* HttpClient) with its retry loop, backoff, rate-limit bookkeeping, and    *)
(* the error classifier createErrorFromResponse of the errors module.       *)
(*                                                                          *)
(* Value encodings                                                          *)
(*   - a JS object is a record; a property that is not set is a field that  *)
(*     is not in the record's DOMAIN ("statusCode" in error).               *)
(*   - undefined / null as a whole value is the record Undefined / Null.    *)
(*   - a header value is a string, written as a sequence of one-character   *)
(*     strings, so that Number.parseInt can be computed on it.              *)
(*   - a number that parseInt produced is Num(n) or NaN.                    *)
(*   - an error message is a sequence of words.                             *)
(*   - time is in milliseconds; Math.random() * 1000 is drawn from          *)
(*     JitterSamples, a subset of [0, 1000).                                *)
(***************************************************************************)
EXTENDS Integers, Sequences, FiniteSets, TLC

VARIABLES
    userConfig,     \* the ClientConfig handed to the HttpClient constructor
    config,         \* HttpClient._config (retries, retryDelay)
    rateLimitInfo,  \* HttpClient._rateLimitInfo
    pc,             \* position of the request() call: idle, attempting, sleeping, done
    attempt,        \* loop variable of request()
    lastError,      \* local variable lastError of request()
    timer,          \* <<>> or <<ms>>: the pending timer of sleep(ms)
    result,         \* settlement of the request() promise
    calls,          \* history: transport attempts made by this request() call
    sleepCount,     \* history: sleep() calls made by this request() call
    lastOutcome,    \* history: what the transport delivered to the last attempt
    thrown,         \* history: what the last attempt's transport promise rejected with
    probeIn,        \* argument of a direct call of a pure function or a method
    probeOut,       \* its result
    env,            \* process.env: the PROXYCHECK_* variables that are set
    managerConfig,  \* ConfigManager._config, Undefined before construction
    flights,        \* the request() calls in flight on one engine, by call number
    carrier         \* history: headers of the last processed response that carried
                    \* rate-limit headers (any of them; the limit header)

vars == <<userConfig, config, rateLimitInfo, pc, attempt, lastError, timer, result,
          calls, sleepCount, lastOutcome, thrown, probeIn, probeOut, env, managerConfig,
          flights, carrier>>

-----------------------------------------------------------------------------
(* Bounds of the model *)

\* configured retry counts range over 0..MaxCfgRetries (and "not given")
MaxCfgRetries == 2

-----------------------------------------------------------------------------
(* Program constants *)

DEFAULT_RETRIES == 3
DEFAULT_RETRY_DELAY == 1000
JITTER_SPAN == 1000
MS_PER_SECOND == 1000
HTTP_TOO_MANY_REQUESTS == 429
HTTP_UNAUTHORIZED == 401
HTTP_OK == 200
HTTP_INTERNAL_SERVER_ERROR == 500

-----------------------------------------------------------------------------
(* JS values *)

Undefined == [undefined |-> TRUE]
Null == [null |-> TRUE]

Num(n) == [num |-> n]
NaN == [nan |-> TRUE]

IsNum(x) == "num" \in DOMAIN x

\* x * k on numbers, NaN * k = NaN
TimesK(x, k) == IF IsNum(x) THEN Num(x.num * k) ELSE NaN

\* JS truthiness of a number: 0 and NaN are falsy
TruthyNum(x) == IsNum(x) /\ x.num # 0

Digits == {"0", "1", "2", "3", "4", "5", "6", "7", "8", "9"}

DigitVal(c) ==
    CASE c = "0" -> 0 [] c = "1" -> 1 [] c = "2" -> 2 [] c = "3" -> 3 [] c = "4" -> 4
      [] c = "5" -> 5 [] c = "6" -> 6 [] c = "7" -> 7 [] c = "8" -> 8 [] c = "9" -> 9

RECURSIVE SkipSpaces(_)
SkipSpaces(s) ==
    IF s # <<>> /\ Head(s) = " " THEN SkipSpaces(Tail(s)) ELSE s

\* value of the longest prefix of digits of s, acc the value read so far
RECURSIVE DigitsValue(_, _)
DigitsValue(s, acc) ==
    IF s # <<>> /\ Head(s) \in Digits
    THEN DigitsValue(Tail(s), acc * 10 + DigitVal(Head(s)))
    ELSE acc

\* Number.parseInt(s, 10): leading white space, an optional sign, then the
\* longest run of decimal digits; NaN when there is no digit
ParseInt(s) ==
    LET t == SkipSpaces(s)
        neg == t # <<>> /\ Head(t) = "-"
        u == IF t # <<>> /\ Head(t) \in {"-", "+"} THEN Tail(t) ELSE t
    IN  IF u = <<>> \/ Head(u) \notin Digits
        THEN NaN
        ELSE Num(IF neg THEN 0 - DigitsValue(u, 0) ELSE DigitsValue(u, 0))

\* headers[name] || dflt : an absent header and the empty string are falsy
HeaderOr(headers, name, dflt) ==
    IF name \in DOMAIN headers /\ headers[name] # <<>> THEN headers[name] ELSE dflt

RECURSIVE Pow2(_)
Pow2(n) == IF n = 0 THEN 1 ELSE 2 * Pow2(n - 1)

-----------------------------------------------------------------------------
(* Error taxonomy (errors module) *)

\* ERROR_CODES
API_ERROR == "API_ERROR"
NETWORK_ERROR == "NETWORK_ERROR"
RATE_LIMIT == "RATE_LIMIT"
AUTHENTICATION_ERROR == "AUTHENTICATION_ERROR"
VALIDATION_ERROR == "VALIDATION_ERROR"
TIMEOUT_ERROR == "TIMEOUT_ERROR"

\* new ProxyCheckError(message, code): statusCode is not set
ProxyCheckError(message, code) ==
    [name |-> "ProxyCheckError", message |-> message, code |-> code]

\* new ProxyCheckError(message, code, statusCode)
ProxyCheckErrorWithStatus(message, code, statusCode) ==
    [name |-> "ProxyCheckError", message |-> message, code |-> code,
     statusCode |-> statusCode]

\* new ProxyCheckAPIError(message, statusCode, response, requestId); the optional
\* requestId is <<>> (undefined, the property stays unset) or <<value>>
ProxyCheckAPIError(message, statusCode, response, requestId) ==
    LET e == [name |-> "ProxyCheckAPIError", message |-> message, code |-> API_ERROR,
              statusCode |-> statusCode, response |-> response]
    IN  IF requestId = <<>> THEN e ELSE e @@ [requestId |-> requestId[1]]

\* new ProxyCheckAPIError(message, statusCode): no response, no requestId
ProxyCheckAPIErrorBare(message, statusCode) ==
    [name |-> "ProxyCheckAPIError", message |-> message, code |-> API_ERROR,
     statusCode |-> statusCode]

ProxyCheckValidationError(message) ==
    [name |-> "ProxyCheckValidationError", message |-> message, code |-> VALIDATION_ERROR]

ProxyCheckRateLimitError(message, limit, remaining, reset, retryAfter) ==
    [name |-> "ProxyCheckRateLimitError", message |-> message, code |-> RATE_LIMIT,
     statusCode |-> HTTP_TOO_MANY_REQUESTS, limit |-> limit, remaining |-> remaining,
     reset |-> reset, retryAfter |-> retryAfter]

\* new ProxyCheckNetworkError(message, originalError); originalError is Undefined
\* (the property stays unset) or the raw failure
ProxyCheckNetworkError(message, originalError) ==
    LET e == [name |-> "ProxyCheckNetworkError", message |-> message,
              code |-> NETWORK_ERROR]
    IN  IF originalError = Undefined THEN e ELSE e @@ [originalError |-> originalError]

ProxyCheckAuthenticationError(message) ==
    [name |-> "ProxyCheckAuthenticationError", message |-> message,
     code |-> AUTHENTICATION_ERROR, statusCode |-> HTTP_UNAUTHORIZED]

ProxyCheckTimeoutError(message, timeout) ==
    [name |-> "ProxyCheckTimeoutError", message |-> message, code |-> TIMEOUT_ERROR,
     timeout |-> timeout]

\* what the JS runtime raises on a property read of undefined / null
TypeError == [name |-> "TypeError", message |-> <<"Cannot", "read", "properties">>]

ErrorClassNames ==
    {"ProxyCheckError", "ProxyCheckAPIError", "ProxyCheckValidationError",
     "ProxyCheckRateLimitError", "ProxyCheckNetworkError",
     "ProxyCheckAuthenticationError", "ProxyCheckTimeoutError"}

\* error instanceof ProxyCheckError (every class extends it)
isProxyCheckError(error) ==
    "name" \in DOMAIN error /\ error.name \in ErrorClassNames

\* error instanceof ProxyCheckRateLimitError
isRateLimitError(error) ==
    "name" \in DOMAIN error /\ error.name = "ProxyCheckRateLimitError"

\* error instanceof ProxyCheckValidationError
isValidationError(error) ==
    "name" \in DOMAIN error /\ error.name = "ProxyCheckValidationError"

\* `${statusCode}`
StatusText(status) ==
    CASE status = 400 -> "400" [] status = 401 -> "401" [] status = 403 -> "403"
      [] status = 404 -> "404" [] status = 429 -> "429" [] status = 500 -> "500"
      [] status = 503 -> "503" [] OTHER -> "nnn"

\* ProxyCheckAPIError.fromResponse: response.message || response.error || ...;
\* reading a property of null raises TypeError
fromResponse(statusCode, response, requestId) ==
    IF response = Null \/ response = Undefined
    THEN TypeError
    ELSE LET message ==
                 IF "message" \in DOMAIN response /\ response.message # <<>>
                 THEN response.message
                 ELSE IF "error" \in DOMAIN response /\ response.error # <<>>
                      THEN response.error
                      ELSE <<"API", "error:", StatusText(statusCode)>>
         IN  ProxyCheckAPIError(message, statusCode, response, requestId)

\* message.includes("timeout"), on a message written as words
IncludesTimeout(message) ==
    \E i \in 1..Len(message) : message[i] = "timeout"

\* error && typeof error === "object": a raw failure is a record, and a thrown
\* primitive or null is the record [primitive |-> TRUE]
IsObject(error) == "primitive" \notin DOMAIN error

\* createErrorFromResponse(error): the typed error it returns, or TypeError when
\* the destructuring of error.response (or fromResponse) raises

createErrorFromResponse(error) ==
    IF IsObject(error) /\ "response" \in DOMAIN error
    THEN \* const { status, data, headers } = axiosError.response
         IF error.response = Undefined \/ error.response = Null
         THEN TypeError
         ELSE LET status == error.response.status
                  data == error.response.data
                  headers == error.response.headers
              IN  IF status = HTTP_TOO_MANY_REQUESTS
                  THEN ProxyCheckRateLimitError(
                           <<"Rate", "limit", "exceeded">>,
                           ParseInt(HeaderOr(headers, "x-ratelimit-limit", <<"0">>)),
                           ParseInt(HeaderOr(headers, "x-ratelimit-remaining", <<"0">>)),
                           TimesK(ParseInt(HeaderOr(headers, "x-ratelimit-reset", <<"0">>)),
                                  MS_PER_SECOND),
                           ParseInt(HeaderOr(headers, "retry-after", <<"6", "0">>)))
                  ELSE IF status = HTTP_UNAUTHORIZED
                  THEN ProxyCheckAuthenticationError(
                           IF data # Null /\ data # Undefined /\ "message" \in DOMAIN data
                           THEN data.message
                           ELSE <<"Authentication", "failed">>)
                  ELSE fromResponse(status, data,
                                    IF "x-request-id" \in DOMAIN headers
                                    THEN <<headers["x-request-id"]>> ELSE <<>>)
    ELSE IF IsObject(error) /\ "code" \in DOMAIN error /\ error.code = "ECONNABORTED"
    THEN ProxyCheckTimeoutError(<<"Request", "timed", "out">>,
                                IF "timeout" \in DOMAIN error THEN error.timeout ELSE 0)
    ELSE IF IsObject(error) /\ "message" \in DOMAIN error /\ IncludesTimeout(error.message)
    THEN ProxyCheckTimeoutError(<<"Request", "timed", "out">>, 0)
    ELSE IF IsObject(error) /\ "request" \in DOMAIN error
    THEN ProxyCheckNetworkError(<<"Network", "error", "occurred">>,
                                IF "isError" \in DOMAIN error THEN error
                                ELSE Undefined)
    ELSE ProxyCheckError(
             IF IsObject(error) /\ "message" \in DOMAIN error
             THEN error.message
             ELSE <<"An", "unknown", "error", "occurred">>,
             API_ERROR)

-----------------------------------------------------------------------------
(* What the transport can deliver *)

\* headers of a response: a function from the header names present to strings
NoHeaders == [h \in {} |-> <<>>]

OnlyRemaining == ("x-ratelimit-remaining" :> <<"9", "9", "8">>)

AllFour ==
    ("x-ratelimit-limit" :> <<"1", "0", "0">>) @@ ("x-ratelimit-remaining" :> <<"7">>)
        @@ ("x-ratelimit-reset" :> <<"1", "7">>) @@ ("retry-after" :> <<"5">>)

LimitAndZeroRetryAfter ==
    ("x-ratelimit-limit" :> <<"5", "0">>) @@ ("retry-after" :> <<"0">>)

HeaderSamples == {NoHeaders, OnlyRemaining, AllFour, LimitAndZeroRetryAfter}

\* response bodies of a failure: an object with a message, an object with an
\* error, JSON null
MessageBody == [status |-> "error", message |-> <<"bad">>]

BodySamples == {MessageBody, [status |-> "error", error |-> <<"denied">>], Null}

\* statuses axios rejects with (validateStatus: 2xx only)
ErrorStatuses == {400, 401, 403, 404, 429, 500, 503}

\* a fulfilled transport call
Responses ==
    { [status |-> HTTP_OK, data |-> d, headers |-> h] :
          d \in {[status |-> "ok", proxy |-> "no"], [status |-> "ok", proxy |-> "yes"]},
          h \in HeaderSamples }

FailureWith(s, d, h) ==
    [isError |-> TRUE, message |-> <<"Request", "failed">>, request |-> TRUE,
     response |-> [status |-> s, data |-> d, headers |-> h]]

\* a rejected transport call with a response: every status, and for a rate-limit,
\* a server and a client status every header sample, for 400 and 401 every body
ResponseFailures ==
    { FailureWith(s, MessageBody, NoHeaders) : s \in ErrorStatuses }
        \cup { FailureWith(s, MessageBody, h) : s \in {429, 503, 404}, h \in HeaderSamples }
        \cup { FailureWith(s, d, NoHeaders) : s \in {400, 401}, d \in BodySamples }

\* a rejected transport call without a response: a timeout that axios flags, a
\* timeout told by the message only, a network failure, an error with nothing
\* but a message, a thrown string, and a failure whose response property is
\* present and undefined
PlainFailures ==
    { [isError |-> TRUE, code |-> "ECONNABORTED", message |-> <<"aborted">>,
       request |-> TRUE, timeout |-> 5000],
      [isError |-> TRUE, message |-> <<"timeout", "of", "5000ms", "exceeded">>],
      [isError |-> TRUE, code |-> "ERR_NETWORK", message |-> <<"Network", "Error">>,
       request |-> TRUE],
      [isError |-> TRUE, message |-> <<"boom">>],
      [primitive |-> TRUE],
      [isError |-> TRUE, message |-> <<"Network", "Error">>, request |-> TRUE,
       response |-> Undefined] }

RawFailures == ResponseFailures \cup PlainFailures

-----------------------------------------------------------------------------
(* HttpClient *)

\* the ClientConfig values a caller passes; a property left out is not given
UserConfigs ==
    { [apiKey |-> "k"] @@ r @@ d :
        r \in {<<>>} \cup { [retries |-> n] : n \in 0..MaxCfgRetries },
        d \in {<<>>} \cup { [retryDelay |-> m] : m \in {0, 500} } }
\* config.field || dflt : a property that is not given and 0 are falsy
ConfigOr(cfg, field, dflt) ==
    IF field \in DOMAIN cfg /\ cfg[field] # 0 THEN cfg[field] ELSE dflt

\* constructor: this._config (the fields the retry loop reads)
Constructor(cfg) ==
    [retries |-> ConfigOr(cfg, "retries", DEFAULT_RETRIES),
     retryDelay |-> ConfigOr(cfg, "retryDelay", DEFAULT_RETRY_DELAY)]

\* updateRateLimitInfo without its guard: the limit header defaults like the others
updateRateLimitInfoUnguarded(info, headers) ==
    [limit |-> ParseInt(HeaderOr(headers, "x-ratelimit-limit", <<"0">>)),
     remaining |-> ParseInt(HeaderOr(headers, "x-ratelimit-remaining", <<"0">>)),
     reset |-> TimesK(ParseInt(HeaderOr(headers, "x-ratelimit-reset", <<"0">>)),
                      MS_PER_SECOND),
     retryAfter |-> ParseInt(HeaderOr(headers, "retry-after", <<"0">>))]

\* updateRateLimitInfo(response): the new value of this._rateLimitInfo
updateRateLimitInfo(info, headers) ==
    IF "x-ratelimit-limit" \in DOMAIN headers /\ headers["x-ratelimit-limit"] # <<>>
    THEN [limit |-> ParseInt(headers["x-ratelimit-limit"]),
          remaining |-> ParseInt(HeaderOr(headers, "x-ratelimit-remaining", <<"0">>)),
          reset |-> TimesK(ParseInt(HeaderOr(headers, "x-ratelimit-reset", <<"0">>)),
                           MS_PER_SECOND),
          retryAfter |-> ParseInt(HeaderOr(headers, "retry-after", <<"0">>))]
    ELSE info

\* if (error.response): the raw failure carries a response object
HasResponse(error) ==
    /\ IsObject(error)
    /\ "response" \in DOMAIN error
    /\ error.response # Undefined
    /\ error.response # Null

\* response interceptor, rejection handler: the new this._rateLimitInfo
OnRejectedInfo(info, error) ==
    IF HasResponse(error) THEN updateRateLimitInfo(info, error.response.headers) ELSE info

\* Math.random() * 1000, in whole milliseconds
JitterSamples == {0, JITTER_SPAN - 1}

\* calculateDelay(attempt, baseDelay), jitter = Math.random() * 1000
calculateDelay(n, baseDelay, jitter) == baseDelay * Pow2(n) + jitter

\* isRetryableError that treats every 4xx alike (no rate-limit exception)
isRetryableErrorNo429(error) ==
    IF "statusCode" \in DOMAIN error /\ error.statusCode >= 400 /\ error.statusCode < 500
    THEN FALSE
    ELSE IF "statusCode" \in DOMAIN error /\ error.statusCode >= 500
    THEN TRUE
    ELSE "code" \in DOMAIN error /\ error.code \in {NETWORK_ERROR, TIMEOUT_ERROR}

\* isRetryableError(error)
isRetryableError(error) ==
    IF "statusCode" \in DOMAIN error /\ error.statusCode >= 400 /\ error.statusCode < 500
    THEN isRateLimitError(error)
    ELSE IF "statusCode" \in DOMAIN error /\ error.statusCode >= 500
    THEN TRUE
    ELSE "code" \in DOMAIN error /\ error.code \in {NETWORK_ERROR, TIMEOUT_ERROR}

\* the catch block without the retryability check: only the last attempt breaks
BreaksLoopOnLastOnly(n, retries, error) ==
    n = retries

\* the catch block with the last attempt taken one too early
BreaksLoopOneEarly(n, retries, error) ==
    n >= retries - 1 \/ ~isRetryableError(error)

\* request(), catch block: the loop is left (break) on the last attempt and on a
\* non-retryable error
BreaksLoop(n, retries, error) ==
    n = retries \/ ~isRetryableError(error)

\* the catch block without the retry-after override: always the backoff value
RetryDelayBackoffOnly(n, baseDelay, jitter, error) ==
    calculateDelay(n, baseDelay, jitter)

\* request(), catch block: the delay handed to sleep()
RetryDelay(n, baseDelay, jitter, error) ==
    IF isRateLimitError(error) /\ TruthyNum(error.retryAfter)
    THEN error.retryAfter.num * MS_PER_SECOND
    ELSE calculateDelay(n, baseDelay, jitter)

\* request(), catch (error): lastError = error
CaughtError(error) == error

\* the return in the try block handing out the response instead of its body
ResponseWhole(response) == response

\* request(), the return in the try block
ResponseData(response) == response.data

-----------------------------------------------------------------------------
(* The state machine: one engine, one request() call at a time *)

Init ==
    /\ userConfig \in UserConfigs
    /\ config = Constructor(userConfig)
    /\ rateLimitInfo = Undefined
    /\ pc = "idle"
    /\ attempt = 0
    /\ lastError = Undefined
    /\ timer = <<>>
    /\ result = Undefined
    /\ calls = 0
    /\ sleepCount = 0
    /\ lastOutcome = Undefined
    /\ thrown = Undefined
    /\ probeIn = Undefined
    /\ probeOut = Undefined
    /\ env = <<>>
    /\ managerConfig = Undefined
    /\ flights = <<>>
    /\ carrier = Undefined

\* request(requestConfig) is called: the loop starts with attempt = 0
RequestCalled ==
    /\ pc \in {"idle", "done"}
    /\ pc' = "attempting"
    /\ attempt' = 0
    /\ lastError' = Undefined
    /\ result' = Undefined
    /\ calls' = 0
    /\ sleepCount' = 0
    /\ lastOutcome' = Undefined
    /\ thrown' = Undefined
    /\ UNCHANGED <<userConfig, config, rateLimitInfo, timer, env, managerConfig, flights, carrier>>

Request == RequestCalled /\ UNCHANGED <<probeIn, probeOut>>

\* the transport call of this attempt is fulfilled: the response interceptor
\* updates the snapshot and request() returns response.data
AttemptSucceeds(response) ==
    /\ pc = "attempting"
    /\ rateLimitInfo' = updateRateLimitInfo(rateLimitInfo, response.headers)
    /\ lastOutcome' = [response |-> response]
    /\ calls' = calls + 1
    /\ result' = [resolved |-> ResponseData(response)]
    /\ pc' = "done"
    /\ UNCHANGED <<userConfig, config, attempt, lastError, timer, sleepCount, thrown,
                   probeIn, probeOut, env, managerConfig, flights, carrier>>

\* the transport call of this attempt is rejected with the raw failure error: the
\* response interceptor updates the snapshot and rejects with the classified
\* error; the catch block of request() either leaves the loop and throws
\* lastError, or computes the delay and starts sleep(delay)
AttemptFails(error, jitter) ==
    LET classified == createErrorFromResponse(error)
    IN  /\ pc = "attempting"
        /\ rateLimitInfo' = OnRejectedInfo(rateLimitInfo, error)
        /\ lastOutcome' = error
        /\ calls' = calls + 1
        /\ thrown' = classified
        /\ lastError' = CaughtError(classified)
        /\ IF BreaksLoop(attempt, config.retries, lastError')
           THEN /\ pc' = "done"
                /\ result' = [rejected |-> lastError']
                /\ UNCHANGED <<timer, sleepCount>>
           ELSE /\ pc' = "sleeping"
                /\ timer' = <<RetryDelay(attempt, config.retryDelay, jitter, lastError')>>
                /\ sleepCount' = sleepCount + 1
                /\ UNCHANGED result
        /\ UNCHANGED <<userConfig, config, attempt, probeIn, probeOut, env, managerConfig, flights, carrier>>

\* the timer of sleep(delay) fires: attempt++ and the loop condition
SleepElapsed ==
    /\ pc = "sleeping"
    /\ timer' = <<>>
    /\ attempt' = attempt + 1
    /\ IF attempt + 1 <= config.retries
       THEN pc' = "attempting" /\ UNCHANGED result
       ELSE pc' = "done" /\ result' = [rejected |-> lastError]
    /\ UNCHANGED <<userConfig, config, rateLimitInfo, lastError, calls, sleepCount,
                   lastOutcome, thrown, probeIn, probeOut, env, managerConfig, flights, carrier>>

Next ==
    \/ Request
    \/ \E response \in Responses : AttemptSucceeds(response)
    \/ \E error \in RawFailures, jitter \in JitterSamples : AttemptFails(error, jitter)
    \/ SleepElapsed

Spec == Init /\ [][Next]_vars
\* isRetryableError(error) called directly on a typed error
TypedErrors ==
    ({ createErrorFromResponse(r) : r \in RawFailures } \ {TypeError})
        \cup { ProxyCheckAPIErrorBare(<<"failed">>, s) : s \in ErrorStatuses }
        \cup { ProxyCheckRateLimitError(<<"Rate", "limited">>, Num(100), Num(0), Num(0), Num(r)) :
                   r \in {0, 30} }
        \cup { ProxyCheckValidationError(<<"Invalid">>),
               ProxyCheckNetworkError(<<"Network", "error">>, Undefined),
               ProxyCheckAuthenticationError(<<"Invalid", "or", "missing", "API", "key">>),
               ProxyCheckTimeoutError(<<"timed", "out">>, 5000),
               ProxyCheckError(<<"Other">>, "OTHER"),
               ProxyCheckErrorWithStatus(<<"Test", "error">>, "TEST_CODE", 500),
               ProxyCheckErrorWithStatus(<<"Test", "error">>, "TEST_CODE", 404) }

IsRetryableErrorCall(error) ==
    /\ probeIn' = error
    /\ probeOut' = [value |-> isRetryableError(error)]
    /\ UNCHANGED <<userConfig, config, rateLimitInfo, pc, attempt, lastError, timer,
                   result, calls, sleepCount, lastOutcome, thrown, env, managerConfig, flights, carrier>>

NextProbe == \E error \in TypedErrors : IsRetryableErrorCall(error)

\* an engine on which only direct calls of its pure methods are made
SpecProbe == Init /\ [][NextProbe]_vars

-----------------------------------------------------------------------------
(* Strings, arrays and options                                              *)
(*   - a JS string whose characters matter (an address, a URL) is Str(s),   *)
(*     s a sequence of tokens: a token is one special character ("/", "@",  *)
(*     ".", " ", ...) or a run of unreserved characters ("v2", "key").      *)
(*   - a JS array is Arr(a), a a sequence of values.                        *)
(*   - an API key, a country and a tag are TLA+ strings, "" the empty one;  *)
(*     as a query parameter or a form field the key k is Str(<<k>>).        *)
(*   - a query parameter value is Num(n), Str(s), Undefined or Null.        *)
(*   - ProxyCheckOptions is a record; an option that is undefined is a      *)
(*     field that is not in its DOMAIN.                                     *)

Str(s) == [str |-> s]
Arr(a) == [arr |-> a]

\* typeof x === "string"
IsStr(x) == "str" \in DOMAIN x

\* Array.isArray(x)
IsArr(x) == "arr" \in DOMAIN x

\* !x for undefined, null, a string and an array: only the empty string is a
\* falsy string, an array is truthy
Falsy(x) == x = Undefined \/ x = Null \/ x = Str(<<>>)

\* s.trim() is TrimEnd(SkipSpaces(s))
RECURSIVE TrimEnd(_)
TrimEnd(s) ==
    IF s # <<>> /\ s[Len(s)] = " " THEN TrimEnd(SubSeq(s, 1, Len(s) - 1)) ELSE s

\* index of the first token c in s at or after position i, 0 when there is none
RECURSIVE IndexFrom(_, _, _)
IndexFrom(s, c, i) ==
    IF i > Len(s) THEN 0
    ELSE IF s[i] = c THEN i
    ELSE IndexFrom(s, c, i + 1)

\* s.includes(c)
Includes(s, c) == IndexFrom(s, c, 1) # 0

\* parts.join(sep), parts a sequence of token sequences
RECURSIVE Join(_, _)
Join(parts, sep) ==
    IF parts = <<>> THEN <<>>
    ELSE IF Len(parts) = 1 THEN parts[1]
    ELSE parts[1] \o <<sep>> \o Join(Tail(parts), sep)

\* the strings of an array of strings
Strings(a) == [i \in 1..Len(a.arr) |-> a.arr[i].str]

\* the record r without the fields that are not in keys
Restrict(r, keys) == [k \in DOMAIN r \cap keys |-> r[k]]

-----------------------------------------------------------------------------
(* Option schema (types/schemas.ts) and the option merger (config/index.ts) *)

\* ProxyCheckOptionsSchema.parse(options) succeeds
ProxyCheckOptionsSchema(options) ==
    /\ "riskData" \in DOMAIN options => options.riskData \in {0, 1, 2}
    /\ "vpnDetection" \in DOMAIN options => options.vpnDetection \in {0, 1, 2, 3}
    /\ "dayRestrictor" \in DOMAIN options => options.dayRestrictor > 0

\* stripUndefined(parsed): the parsed object holds the schema's keys only, and
\* a key whose value is undefined is left out
stripUndefined(options) ==
    Restrict(options,
             {"apiKey", "asnData", "allowedCountries", "blockedCountries", "tlsSecurity",
              "infEngine", "riskData", "vpnDetection", "dayRestrictor", "queryTagging",
              "customTag", "maskAddress"})

\* options.flag as a condition: undefined and false are falsy
Flag(options, name) == name \in DOMAIN options /\ options[name]

\* options.list && options.list.length > 0
NonEmptyList(options, name) == name \in DOMAIN options /\ Len(options[name]) > 0

\* options.name as a condition, for a string option: undefined and "" are falsy
TruthyText(options, name) == name \in DOMAIN options /\ options[name] # ""

buildQueryParamsTruthyLevels(options, apiKey) ==
    LET finalApiKey == IF TruthyText(options, "apiKey") THEN options.apiKey ELSE apiKey
        key == IF finalApiKey # "" THEN [key |-> Str(<<finalApiKey>>)] ELSE <<>>
        vpn == IF "vpnDetection" \in DOMAIN options /\ options.vpnDetection # 0
               THEN [vpn |-> Num(options.vpnDetection)] ELSE <<>>
        asn == IF Flag(options, "asnData") THEN [asn |-> Num(1)] ELSE <<>>
        risk == IF "riskData" \in DOMAIN options /\ options.riskData # 0
                THEN [risk |-> Num(options.riskData)] ELSE <<>>
        inf == IF Flag(options, "infEngine") THEN [inf |-> Num(1)] ELSE <<>>
        days == IF "dayRestrictor" \in DOMAIN options /\ options.dayRestrictor # 0
                THEN [days |-> Num(options.dayRestrictor)] ELSE <<>>
    IN  key @@ vpn @@ asn @@ risk @@ inf @@ days
            @@ [node |-> Num(1), port |-> Num(1), seen |-> Num(1)]

\* buildQueryParams(options, apiKey); apiKey "" stands for an ambient key that
\* is undefined or empty, both falsy
buildQueryParams(options, apiKey) ==
    LET finalApiKey == IF TruthyText(options, "apiKey") THEN options.apiKey ELSE apiKey
        key == IF finalApiKey # "" THEN [key |-> Str(<<finalApiKey>>)] ELSE <<>>
        vpn == IF "vpnDetection" \in DOMAIN options
               THEN [vpn |-> Num(options.vpnDetection)] ELSE <<>>
        asn == IF Flag(options, "asnData") THEN [asn |-> Num(1)] ELSE <<>>
        risk == IF "riskData" \in DOMAIN options
                THEN [risk |-> Num(options.riskData)] ELSE <<>>
        inf == IF Flag(options, "infEngine") THEN [inf |-> Num(1)] ELSE <<>>
        days == IF "dayRestrictor" \in DOMAIN options /\ options.dayRestrictor # 0
                THEN [days |-> Num(options.dayRestrictor)] ELSE <<>>
    IN  key @@ vpn @@ asn @@ risk @@ inf @@ days
            @@ [node |-> Num(1), port |-> Num(1), seen |-> Num(1)]

\* shouldUsePostMethod(addresses)
shouldUsePostMethod(addresses) == IsArr(addresses) /\ Len(addresses.arr) > 1

\* buildPostData(options, addresses)
buildPostData(options, addresses) ==
    LET ips == IF ~Falsy(addresses) /\ IsArr(addresses) /\ Len(addresses.arr) > 1
               THEN [ips |-> Str(Join(Strings(addresses), ","))] ELSE <<>>
        tag == IF Flag(options, "queryTagging") /\ TruthyText(options, "customTag")
               THEN [tag |-> Str(<<options.customTag>>)] ELSE <<>>
    IN  ips @@ tag

\* maskEmail(address) of processAddresses; domain is address.split("@")[1], what
\* lies between the first "@" and the second one (or the end of the address)
maskEmail(address) ==
    LET i == IndexFrom(address.str, "@", 1)
        j == IndexFrom(address.str, "@", i + 1)
        domain == SubSeq(address.str, i + 1, IF j = 0 THEN Len(address.str) ELSE j - 1)
    IN  IF Includes(address.str, "@")
        THEN Str(<<"anonymous", "@">> \o domain)
        ELSE address

\* processAddresses(addresses, maskAddress)
processAddresses(addresses, maskAddress) ==
    IF ~maskAddress THEN addresses
    ELSE IF IsArr(addresses)
    THEN Arr([i \in 1..Len(addresses.arr) |-> maskEmail(addresses.arr[i])])
    ELSE maskEmail(addresses)

mergeCountryOptionsKeepsFlag(options) == options

\* mergeCountryOptions(options): a copy, the input is not written
mergeCountryOptions(options) ==
    IF NonEmptyList(options, "allowedCountries") \/ NonEmptyList(options, "blockedCountries")
    THEN [asnData |-> TRUE] @@ options
    ELSE options

-----------------------------------------------------------------------------
(* URL building (HttpClient.buildUrl, buildUrlWithAddress)                  *)

API_ENDPOINTS_CHECK == <<"v2", "/">>
API_ENDPOINTS_EXPORT == <<"dashboard", "/", "export", "/">>

\* encodeURIComponent on one token: a run of unreserved characters and "." are
\* kept, a reserved character becomes its escape sequence
EncodeToken(c) ==
    CASE c = "@" -> "%40"
      [] c = " " -> "%20"
      [] c = "/" -> "%2F"
      [] c = ":" -> "%3A"
      [] c = "," -> "%2C"
      [] c = "?" -> "%3F"
      [] c = "&" -> "%26"
      [] c = "=" -> "%3D"
      [] c = "+" -> "%2B"
      [] c = "#" -> "%23"
      [] c = "%" -> "%25"
      [] OTHER -> c

\* encodeURIComponent(s)
encodeURIComponent(s) == [i \in 1..Len(s) |-> EncodeToken(s[i])]

\* the application/x-www-form-urlencoded serialisation of a value, as
\* URLSearchParams writes it: a space becomes "+"
FormEncode(s) == [i \in 1..Len(s) |-> IF s[i] = " " THEN "+" ELSE EncodeToken(s[i])]

\* String(value) for a number and a string
String(value) == IF IsNum(value) THEN <<ToString(value.num)>> ELSE value.str

\* s.split(c)
RECURSIVE SplitOn(_, _)
SplitOn(s, c) ==
    LET i == IndexFrom(s, c, 1)
    IN  IF i = 0 THEN <<s>>
        ELSE <<SubSeq(s, 1, i - 1)>> \o SplitOn(SubSeq(s, i + 1, Len(s)), c)

\* the path state of the URL parser: "." is dropped and ".." removes the
\* segment before it; either one as the last segment leaves an empty segment
RECURSIVE ResolveSegments(_, _)
ResolveSegments(segs, out) ==
    IF segs = <<>> THEN out
    ELSE LET seg == Head(segs)
             closing == IF Len(segs) = 1 THEN << <<>> >> ELSE <<>>
         IN  IF seg = <<".", ".">>
             THEN ResolveSegments(Tail(segs),
                      (IF out # <<>> THEN SubSeq(out, 1, Len(out) - 1) ELSE out) \o closing)
             ELSE IF seg = <<".">>
             THEN ResolveSegments(Tail(segs), out \o closing)
             ELSE ResolveSegments(Tail(segs), Append(out, seg))

\* new URL(input, "<scheme>://<baseUrl>").pathname, for a base URL without a
\* path and an input that is a path (no scheme, no "//" authority)
Pathname(input) ==
    LET relative == IF input # <<>> /\ Head(input) = "/" THEN Tail(input) ELSE input
    IN  <<"/">> \o Join(ResolveSegments(SplitOn(relative, "/"), <<>>), "/")

\* the keys that are appended: Object.entries(params) lists the keys in
\* insertion order (a params object is a record, and its keys are taken to have
\* been inserted in the order of keyOrder), and a key is appended when
\* value !== undefined && value !== null
Appended(params) ==
    LET keyOrder == <<"key", "vpn", "asn", "risk", "inf", "days", "node", "port", "seen",
                      "tag", "json", "limit", "offset">>
    IN  SelectSeq(keyOrder,
                  LAMBDA k : k \in DOMAIN params /\ params[k] # Undefined /\ params[k] # Null)

\* url.search after the searchParams.append calls: "" when nothing was appended
RECURSIVE Pairs(_, _)
Pairs(keys, params) ==
    IF keys = <<>> THEN <<>>
    ELSE <<Head(keys), "=">> \o FormEncode(String(params[Head(keys)]))
         \o (IF Len(keys) > 1 THEN <<"&">> ELSE <<>>)
         \o Pairs(Tail(keys), params)

Search(params) ==
    IF Appended(params) = <<>> THEN <<>> ELSE <<"?">> \o Pairs(Appended(params), params)

\* result.startsWith("/") ? result.slice(1) : result
StripLeadingSlash(s) == IF s # <<>> /\ Head(s) = "/" THEN Tail(s) ELSE s

\* buildUrl(endpoint, params)
buildUrl(endpoint, params) ==
    Str(StripLeadingSlash(Pathname(endpoint) \o Search(params)))

\* endpoint.endsWith("/") ? endpoint.slice(0, -1) : endpoint
CleanEndpoint(endpoint) ==
    IF endpoint # <<>> /\ endpoint[Len(endpoint)] = "/"
    THEN SubSeq(endpoint, 1, Len(endpoint) - 1)
    ELSE endpoint

\* buildUrlWithAddress(endpoint, address, params)
buildUrlWithAddress(endpoint, address, params) ==
    LET pathWithAddress == CleanEndpoint(endpoint) \o <<"/">> \o encodeURIComponent(address)
    IN  Str(StripLeadingSlash(Pathname(pathWithAddress) \o Search(params)))

-----------------------------------------------------------------------------
(* BaseService and CheckService.checkAddresses                              *)

\* a bound: the longest address array a caller passes
MaxAddresses == 2

\* addresses: an IP address, an e-mail address and a blank string; alone also
\* the empty string and a string of two dots
\* what a caller passes as addresses
AddressInputs ==
    LET samples == { Str(<<"1", ".", "1">>), Str(<<"a", "@", "b">>), Str(<<" ">>) }
    IN  {Undefined, Str(<<>>), Str(<<".", ".">>)} \cup samples
            \cup { Arr(a) : a \in UNION { [1..n -> samples] : n \in 0..MaxAddresses } }

\* what a caller passes as options; riskData 3 and dayRestrictor 0 are not in
\* the schema
CheckOptions ==
    { <<>>,
      [maskAddress |-> TRUE],
      [riskData |-> 3],
      [dayRestrictor |-> 0],
      [blockedCountries |-> <<"CN">>, asnData |-> FALSE],
      [apiKey |-> "ko", vpnDetection |-> 0, queryTagging |-> TRUE, customTag |-> "t"] }

\* what config.getApiKey() returns: "" when no key is configured
ApiKeys == {"", "k"}

\* a completion: Normal(v) or Throw(e)
Normal(v) == [value |-> v]
Throw(e) == [threw |-> e]
Threw(c) == "threw" \in DOMAIN c

\* BaseService.validateConfiguration()
validateConfiguration(apiKey) ==
    IF apiKey = ""
    THEN Throw(ProxyCheckValidationError(
                   <<"API", "key", "is", "required", "but", "not", "configured">>))
    ELSE Normal(Undefined)

\* the address list of validateAddresses
AddressList(addresses) == IF IsArr(addresses) THEN addresses.arr ELSE <<addresses>>

validateAddressesNoBlankCheck(addresses) ==
    IF Falsy(addresses)
    THEN Throw(ProxyCheckValidationError(<<"Addresses", "are", "required">>))
    ELSE IF Len(AddressList(addresses)) = 0
    THEN Throw(ProxyCheckValidationError(
                   <<"At", "least", "one", "address", "is", "required">>))
    ELSE Normal(Undefined)

\* BaseService.validateAddresses(addresses)
validateAddresses(addresses) ==
    IF Falsy(addresses)
    THEN Throw(ProxyCheckValidationError(<<"Addresses", "are", "required">>))
    ELSE IF Len(AddressList(addresses)) = 0
    THEN Throw(ProxyCheckValidationError(
                   <<"At", "least", "one", "address", "is", "required">>))
    ELSE IF \E i \in 1..Len(AddressList(addresses)) :
                \/ ~IsStr(AddressList(addresses)[i])
                \/ Len(TrimEnd(SkipSpaces(AddressList(addresses)[i].str))) = 0
    THEN Throw(ProxyCheckValidationError(
                   <<"Address", "must", "be", "a", "non-empty", "string">>))
    ELSE Normal(Undefined)

\* CheckService.validateOptions(options)
validateOptions(options) ==
    IF ProxyCheckOptionsSchema(options)
    THEN Normal(stripUndefined(options))
    ELSE Throw(ProxyCheckValidationError(<<"Invalid", "options", "provided">>))

\* the try block of checkAddresses up to the call on the HTTP client: the first
\* validation that throws ends it; after them the addresses are processed, the
\* options merged and the method chosen
Prepared(apiKey, addresses, options) ==
    LET validatedOptions == validateOptions(options).value
        processedAddresses ==
            processAddresses(addresses, Flag(validatedOptions, "maskAddress"))
        mergedOptions == mergeCountryOptions(validatedOptions)
        queryParams == buildQueryParams(mergedOptions, apiKey)
        postData == buildPostData(mergedOptions, processedAddresses)
        singleAddress == IF IsArr(processedAddresses)
                         THEN processedAddresses.arr[1]
                         ELSE processedAddresses
    IN  IF Threw(validateConfiguration(apiKey)) THEN validateConfiguration(apiKey)
        ELSE IF Threw(validateAddresses(addresses)) THEN validateAddresses(addresses)
        ELSE IF Threw(validateOptions(options)) THEN validateOptions(options)
        ELSE IF shouldUsePostMethod(processedAddresses)
        THEN Normal([method |-> "postForm",
                     url |-> buildUrl(API_ENDPOINTS_CHECK, queryParams),
                     data |-> postData,
                     params |-> queryParams])
        ELSE IF Falsy(singleAddress)
        THEN Throw(ProxyCheckValidationError(<<"No", "address", "provided">>))
        ELSE Normal([method |-> "get",
                     url |-> buildUrlWithAddress(API_ENDPOINTS_CHECK, singleAddress.str,
                                                 queryParams)])

\* checkAddresses(addresses, options) is called on a service whose
\* configuration returns apiKey: it throws before any call on the HTTP client,
\* or makes one call, get or postForm, which starts request()
CheckAddresses(apiKey, addresses, options) ==
    LET prepared == Prepared(apiKey, addresses, options)
    IN  /\ pc \in {"idle", "done"}
        /\ probeIn' = [fn |-> "checkAddresses", apiKey |-> apiKey,
                       addresses |-> addresses, options |-> options]
        /\ IF Threw(prepared)
           THEN /\ probeOut' = [threw |-> prepared.threw, httpCalls |-> <<>>]
                /\ UNCHANGED <<userConfig, config, rateLimitInfo, pc, attempt, lastError,
                               timer, result, calls, sleepCount, lastOutcome, thrown,
                               env, managerConfig, flights, carrier>>
           ELSE /\ probeOut' = [httpCalls |-> <<prepared.value>>]
                /\ RequestCalled

\* the engine of the service: one configuration, retries = 1
InitCheck ==
    /\ userConfig = [apiKey |-> "k", retries |-> 1]
    /\ config = Constructor(userConfig)
    /\ rateLimitInfo = Undefined
    /\ pc = "idle"
    /\ attempt = 0
    /\ lastError = Undefined
    /\ timer = <<>>
    /\ result = Undefined
    /\ calls = 0
    /\ sleepCount = 0
    /\ lastOutcome = Undefined
    /\ thrown = Undefined
    /\ probeIn = Undefined
    /\ probeOut = Undefined
    /\ env = <<>>
    /\ managerConfig = Undefined
    /\ flights = <<>>
    /\ carrier = Undefined

\* what the transport delivers to a request of the service
CheckResponses == { [status |-> HTTP_OK, data |-> [status |-> "ok", proxy |-> "no"],
                      headers |-> NoHeaders] }

CheckFailures == { FailureWith(HTTP_INTERNAL_SERVER_ERROR, MessageBody, NoHeaders) }

NextCheck ==
    \/ \E apiKey \in ApiKeys, addresses \in AddressInputs, options \in CheckOptions :
           CheckAddresses(apiKey, addresses, options)
    \/ \E response \in CheckResponses : AttemptSucceeds(response)
    \/ \E error \in CheckFailures : AttemptFails(error, 0)
    \/ SleepElapsed

SpecCheck == InitCheck /\ [][NextCheck]_vars

-----------------------------------------------------------------------------
(* ConfigManager (config/index.ts)                                          *)
(*   - a ClientConfig is a record; a number option is an integer, apiKey,   *)
(*     baseUrl and userAgent are TLA+ strings, tlsSecurity is a Boolean.    *)
(*   - process.env is a record of the PROXYCHECK_* variables that are set:  *)
(*     a numeric variable is a sequence of characters, the others are TLA+  *)
(*     strings.                                                             *)
(*   - the logging option and the logger are left out.                      *)

DEFAULT_TIMEOUT == 30000

\* getEnvironmentConfig(): a variable that is not set or is empty gives no entry
getEnvironmentConfig(e) ==
    (IF "PROXYCHECK_API_KEY" \in DOMAIN e /\ e.PROXYCHECK_API_KEY # ""
     THEN [apiKey |-> e.PROXYCHECK_API_KEY] ELSE <<>>)
    @@ (IF "PROXYCHECK_BASE_URL" \in DOMAIN e /\ e.PROXYCHECK_BASE_URL # ""
        THEN [baseUrl |-> e.PROXYCHECK_BASE_URL] ELSE <<>>)
    @@ (IF "PROXYCHECK_TIMEOUT" \in DOMAIN e /\ e.PROXYCHECK_TIMEOUT # <<>>
        THEN [timeout |-> ParseInt(e.PROXYCHECK_TIMEOUT)] ELSE <<>>)
    @@ (IF "PROXYCHECK_RETRIES" \in DOMAIN e /\ e.PROXYCHECK_RETRIES # <<>>
        THEN [retries |-> ParseInt(e.PROXYCHECK_RETRIES)] ELSE <<>>)
    @@ (IF "PROXYCHECK_RETRY_DELAY" \in DOMAIN e /\ e.PROXYCHECK_RETRY_DELAY # <<>>
        THEN [retryDelay |-> ParseInt(e.PROXYCHECK_RETRY_DELAY)] ELSE <<>>)
    @@ (IF "PROXYCHECK_TLS_SECURITY" \in DOMAIN e /\ e.PROXYCHECK_TLS_SECURITY # ""
        THEN [tlsSecurity |-> e.PROXYCHECK_TLS_SECURITY = "true"] ELSE <<>>)

\* userConfig.field || envConfig.field || dflt, for a string option
TextOr(cfg, envConfig, field, dflt) ==
    IF field \in DOMAIN cfg /\ cfg[field] # "" THEN cfg[field]
    ELSE IF field \in DOMAIN envConfig THEN envConfig[field]
    ELSE dflt

\* userConfig.field || envConfig.field || dflt, for a number option: 0 and NaN
\* are falsy
NumberOr(cfg, envConfig, field, dflt) ==
    IF field \in DOMAIN cfg /\ cfg[field] # 0 THEN cfg[field]
    ELSE IF field \in DOMAIN envConfig /\ TruthyNum(envConfig[field])
    THEN envConfig[field].num
    ELSE dflt

\* buildConfig(userConfig); the defaults of baseUrl, tlsSecurity and userAgent
\* are DEFAULTS.BASE_URL, DEFAULTS.TLS_SECURITY and DEFAULTS.USER_AGENT, and
\* tlsSecurity is merged with ??, which keeps a supplied false
buildConfig(cfg, e) ==
    LET envConfig == getEnvironmentConfig(e)
    IN  [apiKey |-> TextOr(cfg, envConfig, "apiKey", ""),
         baseUrl |-> TextOr(cfg, envConfig, "baseUrl", "proxycheck.io"),
         timeout |-> NumberOr(cfg, envConfig, "timeout", DEFAULT_TIMEOUT),
         retries |-> NumberOr(cfg, envConfig, "retries", DEFAULT_RETRIES),
         retryDelay |-> NumberOr(cfg, envConfig, "retryDelay", DEFAULT_RETRY_DELAY),
         tlsSecurity |-> IF "tlsSecurity" \in DOMAIN cfg THEN cfg.tlsSecurity
                         ELSE IF "tlsSecurity" \in DOMAIN envConfig
                         THEN envConfig.tlsSecurity
                         ELSE TRUE,
         userAgent |-> TextOr(cfg, <<>>, "userAgent", "proxycheck-sdk/0.9.0")]

\* ClientConfigSchema.parse(config) succeeds
ClientConfigSchema(cfg) ==
    /\ "apiKey" \in DOMAIN cfg /\ cfg.apiKey # ""
    /\ "timeout" \in DOMAIN cfg => cfg.timeout > 0
    /\ "retries" \in DOMAIN cfg => cfg.retries >= 0
    /\ "retryDelay" \in DOMAIN cfg => cfg.retryDelay >= 0

\* validateConfig()
validateConfig(cfg) ==
    IF ClientConfigSchema(cfg)
    THEN Normal(Undefined)
    ELSE Throw(ProxyCheckValidationError(<<"Invalid", "configuration">>))

\* what a caller passes to the constructor and to updateConfig: a
\* Partial<ClientConfig>
PartialConfigs ==
    { <<>>,
      [apiKey |-> "k"],
      [apiKey |-> ""],
      [apiKey |-> "k", retries |-> 0, retryDelay |-> 0],
      [apiKey |-> "k", retries |-> 2, retryDelay |-> 500, timeout |-> 5000,
       baseUrl |-> "user.io", tlsSecurity |-> FALSE],
      [apiKey |-> "", timeout |-> -1],
      [timeout |-> -1],
      [timeout |-> 0],
      [retries |-> -1],
      [retries |-> 0],
      [retryDelay |-> 0],
      [retryDelay |-> -1],
      [tlsSecurity |-> FALSE],
      [tlsSecurity |-> TRUE, baseUrl |-> "user.io"] }

\* the environments a process runs in
Environments ==
    { <<>>,
      [PROXYCHECK_API_KEY |-> "ke"],
      [PROXYCHECK_API_KEY |-> "ke", PROXYCHECK_TIMEOUT |-> <<"1", "5", "0", "0", "0">>,
       PROXYCHECK_TLS_SECURITY |-> "false"],
      [PROXYCHECK_RETRIES |-> <<"5">>, PROXYCHECK_RETRY_DELAY |-> <<"2", "5", "0">>,
       PROXYCHECK_BASE_URL |-> "env.io"],
      [PROXYCHECK_RETRIES |-> <<"0">>, PROXYCHECK_RETRY_DELAY |-> <<"0">>],
      [PROXYCHECK_TIMEOUT |-> <<"a", "b", "c">>, PROXYCHECK_TLS_SECURITY |-> "true"] }

\* new ConfigManager(userConfig): the object exists when validateConfig() does
\* not throw
NewConfigManager(cfg) ==
    /\ managerConfig = Undefined
    /\ probeIn' = [fn |-> "constructor", userConfig |-> cfg]
    /\ IF Threw(validateConfig(buildConfig(cfg, env)))
       THEN /\ probeOut' = validateConfig(buildConfig(cfg, env))
            /\ UNCHANGED managerConfig
       ELSE /\ probeOut' = Normal(Undefined)
            /\ managerConfig' = buildConfig(cfg, env)
    /\ UNCHANGED <<userConfig, config, rateLimitInfo, pc, attempt, lastError, timer,
                   result, calls, sleepCount, lastOutcome, thrown, env,
                   flights, carrier>>

\* updateConfig(updates): this._config is assigned the rebuilt configuration,
\* then validateConfig() runs on it
UpdateConfig(updates) ==
    LET baseConfig == Restrict(managerConfig,
                               {"apiKey", "baseUrl", "timeout", "retries", "retryDelay",
                                "tlsSecurity", "userAgent"})
        newConfig == updates @@ baseConfig
    IN  /\ managerConfig # Undefined
        /\ probeIn' = [fn |-> "updateConfig", updates |-> updates]
        /\ managerConfig' = buildConfig(newConfig, env)
        /\ probeOut' = validateConfig(managerConfig')
        /\ UNCHANGED <<userConfig, config, rateLimitInfo, pc, attempt, lastError, timer,
                       result, calls, sleepCount, lastOutcome, thrown, env,
                   flights, carrier>>

\* setApiKey(apiKey): this.updateConfig({ apiKey })
SetApiKey(apiKey) == UpdateConfig([apiKey |-> apiKey])

\* a process in some environment, before a ConfigManager is constructed
InitConfig ==
    /\ userConfig = [apiKey |-> "k"]
    /\ config = Constructor(userConfig)
    /\ rateLimitInfo = Undefined
    /\ pc = "idle"
    /\ attempt = 0
    /\ lastError = Undefined
    /\ timer = <<>>
    /\ result = Undefined
    /\ calls = 0
    /\ sleepCount = 0
    /\ lastOutcome = Undefined
    /\ thrown = Undefined
    /\ probeIn = Undefined
    /\ probeOut = Undefined
    /\ env \in Environments
    /\ managerConfig = Undefined
    /\ flights = <<>>
    /\ carrier = Undefined

NextConfig ==
    \/ \E cfg \in PartialConfigs : NewConfigManager(cfg)
    \/ \E updates \in PartialConfigs : UpdateConfig(updates)
    \/ \E apiKey \in {"", "k", "k2"} : SetApiKey(apiKey)

SpecConfig == InitConfig /\ [][NextConfig]_vars

-----------------------------------------------------------------------------
(* CheckService: the response of a single-address check                     *)
(*   a CheckResponse is a record whose field results maps each address the  *)
(*   server answered for (a token sequence) to its AddressCheckResult       *)

\* addBlockingLogic(response, address, options): the response as it is after
\* the assignments to block and block_reason
addBlockingLogic(response, address, options) ==
    LET Marked(block, reason) == [block |-> block, block_reason |-> reason] @@ response
        checkResult == response.results[address]
        Is(field, value) == field \in DOMAIN checkResult /\ checkResult[field] = value
        \* options[name]?.length && (options[name].includes(checkResult.country) ||
        \* (result.isocode && options[name].includes(checkResult.isocode)))
        Listed(name) ==
            /\ NonEmptyList(options, name)
            /\ \E i \in 1..Len(options[name]) :
                   \/ options[name][i] = checkResult.country
                   \/ /\ "isocode" \in DOMAIN checkResult
                      /\ checkResult.isocode # ""
                      /\ options[name][i] = checkResult.isocode
        detection == IF Is("proxy", "yes") /\ Is("type", "VPN") THEN <<"yes", "vpn">>
                     ELSE IF Is("proxy", "yes") THEN <<"yes", "proxy">>
                     ELSE <<"no", "na">>
        blocked == IF detection[1] = "no" /\ Listed("blockedCountries")
                   THEN <<"yes", "country">> ELSE detection
    IN  IF address \notin DOMAIN response.results
        THEN Marked("na", "na")
        ELSE IF Includes(address, "@") /\ "disposable" \in DOMAIN checkResult
        THEN IF checkResult.disposable = "yes" THEN Marked("yes", "disposable")
             ELSE Marked("no", "na")
        ELSE IF "country" \notin DOMAIN checkResult \/ checkResult.country = ""
        THEN Marked("na", "na")
        ELSE IF blocked[1] = "yes" /\ Listed("allowedCountries")
        THEN Marked("no", "na")
        ELSE Marked(blocked[1], blocked[2])

\* checkAddresses(addresses, options) from the response of the HTTP client on:
\* the blocking logic runs for an address passed as a string, on the processed
\* address and the merged options, and processResponse returns the response
ProcessedResponse(addresses, options, response) ==
    LET validatedOptions == validateOptions(options).value
        processedAddresses ==
            processAddresses(addresses, Flag(validatedOptions, "maskAddress"))
        finalAddress == IF IsArr(processedAddresses) THEN processedAddresses.arr[1]
                        ELSE processedAddresses
    IN  IF ~IsArr(addresses) /\ ~Falsy(finalAddress)
        THEN addBlockingLogic(response, finalAddress.str,
                              mergeCountryOptions(validatedOptions))
        ELSE response

-----------------------------------------------------------------------------
(* Direct calls of the pure functions of the option merger, the URL builder *)
(* and the error classifier                                                 *)

\* every record made of one choice per field; a choice <<>> leaves the field out
OptionalField(name, values) == {<<>>} \cup { (name :> v) : v \in values }

\* the arguments of the calls: processAddresses on single addresses and arrays
\* with and without masking, mergeCountryOptions and buildQueryParams on
\* options, buildUrl and buildUrlWithAddress on endpoints, addresses and
\* params, createErrorFromResponse on the raw failures
PureInputs ==
    LET masked == { Str(<<"1", ".", "1">>), Str(<<"a", "@", "b">>),
                    Str(<<"a", "@", "b", "@", "c">>) }
        endpoints == { API_ENDPOINTS_CHECK, <<"v2">>,
                       API_ENDPOINTS_EXPORT \o <<"detections", "/">> }
        urlAddresses == { <<"8", ".", "8">>, <<"test", "@", "example", ".", "com">>,
                          <<"a", " ", "b">>, <<"a", "/", "b">>, <<"2001", ":", ":", "1">>,
                          <<".">>, <<".", ".">> }
        paramsSamples ==
            { <<>>,
              [key |-> Str(<<"test-key">>)],
              [key |-> Str(<<"test-key">>), vpn |-> Num(1), json |-> Undefined,
               tag |-> Null],
              [key |-> Undefined],
              [key |-> Str(<<"k">>), tag |-> Str(<<"a", " ", "b", "&", "c">>)],
              [key |-> Str(<<"k">>), json |-> Num(1), limit |-> Num(10),
               offset |-> Num(0)] }
    IN  { [fn |-> "processAddresses", addresses |-> a, maskAddress |-> mask] :
            a \in masked \cup { Str(<<"a", "@">>), Str(<<"@">>) }
                  \cup { Arr(x) : x \in UNION { [1..n -> masked] : n \in 0..MaxAddresses } },
            mask \in BOOLEAN }
        \cup
        { [fn |-> "mergeCountryOptions", options |-> a @@ b @@ c @@ d] :
            a \in OptionalField("allowedCountries", { <<>>, <<"US">> }),
            b \in OptionalField("blockedCountries", { <<>>, <<"CN", "RU">> }),
            c \in OptionalField("asnData", BOOLEAN),
            d \in OptionalField("vpnDetection", {1}) }
        \cup
        { [fn |-> "buildQueryParams", options |-> a @@ b @@ c @@ d @@ e @@ f,
           apiKey |-> k] :
            a \in OptionalField("apiKey", {"", "ko"}),
            b \in OptionalField("vpnDetection", {0, 3}),
            c \in OptionalField("riskData", {0, 2}),
            d \in OptionalField("asnData", BOOLEAN),
            e \in OptionalField("infEngine", BOOLEAN),
            f \in OptionalField("dayRestrictor", {0, 7}),
            k \in ApiKeys }
        \cup
        { [fn |-> "buildUrl", endpoint |-> e, params |-> p] :
            e \in endpoints, p \in paramsSamples }
        \cup
        { [fn |-> "buildUrlWithAddress", endpoint |-> e, address |-> a, params |-> p] :
            e \in endpoints, a \in urlAddresses, p \in paramsSamples }
        \cup
        { [fn |-> "createErrorFromResponse", error |-> e] : e \in RawFailures }
        \cup
        { [fn |-> "checkAddresses", addresses |-> a, options |-> o,
           response |-> [status |-> "ok", results |-> rs]] :
            a \in { Str(<<"1", ".", "1">>), Str(<<"a", "@", "b">>),
                    Arr(<<Str(<<"1", ".", "1">>)>>) },
            o \in { <<>>, [allowedCountries |-> <<"CN">>],
                    [blockedCountries |-> <<"CN", "RU">>],
                    [allowedCountries |-> <<>>, blockedCountries |-> <<"China">>],
                    [maskAddress |-> TRUE] },
            rs \in { <<>> }
                   \cup { (k :> (p @@ t @@ c @@ i @@ d)) :
                            k \in { <<"1", ".", "1">>, <<"a", "@", "b">>,
                                    <<"anonymous", "@", "b">> },
                            p \in OptionalField("proxy", {"yes", "no"}),
                            t \in OptionalField("type", {"VPN", "SOCKS"}),
                            c \in OptionalField("country", {"China", "Norway"}),
                            i \in OptionalField("isocode", {"CN"}),
                            d \in OptionalField("disposable", {"yes", "no"}) } }

\* a call that is about to be made with the arguments probeIn
InitPure ==
    /\ userConfig = [apiKey |-> "k"]
    /\ config = Constructor(userConfig)
    /\ rateLimitInfo = Undefined
    /\ pc = "idle"
    /\ attempt = 0
    /\ lastError = Undefined
    /\ timer = <<>>
    /\ result = Undefined
    /\ calls = 0
    /\ sleepCount = 0
    /\ lastOutcome = Undefined
    /\ thrown = Undefined
    /\ probeIn \in PureInputs
    /\ probeOut = Undefined
    /\ env = <<>>
    /\ managerConfig = Undefined
    /\ flights = <<>>
    /\ carrier = Undefined

\* the call of fn returns value; nothing else changes
Returns(fn, value) ==
    /\ probeIn.fn = fn
    /\ probeOut = Undefined
    /\ probeOut' = value
    /\ UNCHANGED <<userConfig, config, rateLimitInfo, pc, attempt, lastError, timer,
                   result, calls, sleepCount, lastOutcome, thrown, probeIn, env,
                   managerConfig, flights, carrier>>

ProcessAddressesCall ==
    Returns("processAddresses",
            Normal(processAddresses(probeIn.addresses, probeIn.maskAddress)))

\* the result, and the argument object as it is after the call: merged is a new
\* object and the only one written
MergeCountryOptionsCall ==
    Returns("mergeCountryOptions",
            [value |-> mergeCountryOptions(probeIn.options), options |-> probeIn.options])

BuildQueryParamsCall ==
    Returns("buildQueryParams", Normal(buildQueryParams(probeIn.options, probeIn.apiKey)))

BuildUrlCall ==
    Returns("buildUrl", Normal(buildUrl(probeIn.endpoint, probeIn.params)))

BuildUrlWithAddressCall ==
    Returns("buildUrlWithAddress",
            Normal(buildUrlWithAddress(probeIn.endpoint, probeIn.address, probeIn.params)))

\* the classifier returns a typed error or raises the TypeError
CreateErrorFromResponseCall ==
    Returns("createErrorFromResponse",
            IF createErrorFromResponse(probeIn.error) = TypeError
            THEN Throw(TypeError)
            ELSE Normal(createErrorFromResponse(probeIn.error)))

\* the response of the HTTP client goes through the rest of checkAddresses
CheckResponseCall ==
    Returns("checkAddresses",
            Normal(ProcessedResponse(probeIn.addresses, probeIn.options,
                                     probeIn.response)))

NextPure ==
    \/ ProcessAddressesCall
    \/ MergeCountryOptionsCall
    \/ BuildQueryParamsCall
    \/ BuildUrlCall
    \/ BuildUrlWithAddressCall
    \/ CreateErrorFromResponseCall
    \/ CheckResponseCall

SpecPure == InitPure /\ [][NextPure]_vars

-----------------------------------------------------------------------------
(* StatsService (services/stats.ts)                                         *)
(*   an optional number argument is <<>> (left out) or <<n>>                *)

DEFAULT_STATS_LIMIT == 100
DEFAULT_STATS_OFFSET == 0
DEFAULT_PAGE == 1
MAX_STATS_LIMIT == 1000

\* a parameter with a default value
ArgOr(arg, dflt) == IF arg = <<>> THEN dflt ELSE arg[1]

\* validateLimit(limit), on an integer
validateLimit(limit) ==
    IF limit < 1
    THEN Throw(ProxyCheckValidationError(<<"Limit", "must", "be", "a", "positive", "integer">>))
    ELSE IF limit > MAX_STATS_LIMIT
    THEN Throw(ProxyCheckValidationError(<<"Limit", "cannot", "exceed", "1000">>))
    ELSE Normal(limit)

\* validateOffset(offset), on an integer
validateOffset(offset) ==
    IF offset < 0
    THEN Throw(ProxyCheckValidationError(
                   <<"Offset", "must", "be", "a", "non-negative", "integer">>))
    ELSE Normal(offset)

\* StatsOptionsSchema.parse(statsOptions) succeeds
StatsOptionsSchema(statsOptions) ==
    /\ statsOptions.statSelection \in {"detections", "queries", "usage"}
    /\ "limit" \in DOMAIN statsOptions
           => statsOptions.limit > 0 /\ statsOptions.limit <= MAX_STATS_LIMIT
    /\ "offset" \in DOMAIN statsOptions => statsOptions.offset >= 0

\* getStats(statType, options) up to the call on the HTTP client; options holds
\* limit and offset where they are not undefined
getStats(apiKey, statType, options) ==
    LET paged == statType \in {"detections", "queries"}
        statsOptions ==
            [apiKey |-> apiKey, statSelection |-> statType]
            @@ (IF paged /\ "limit" \in DOMAIN options
                THEN [limit |-> options.limit] ELSE <<>>)
            @@ (IF paged /\ "offset" \in DOMAIN options
                THEN [offset |-> options.offset] ELSE <<>>)
        url == API_ENDPOINTS_EXPORT \o <<statType, "/">>
        \* validatedOptions.apiKey || this.getApiKey(); json for detections and
        \* queries; limit and offset for detections only
        queryParams ==
            [key |-> Str(<<apiKey>>)]
            @@ (IF paged THEN [json |-> Num(1)] ELSE <<>>)
            @@ (IF statType = "detections" /\ "limit" \in DOMAIN statsOptions
                THEN [limit |-> Num(statsOptions.limit)] ELSE <<>>)
            @@ (IF statType = "detections" /\ "offset" \in DOMAIN statsOptions
                THEN [offset |-> Num(statsOptions.offset)] ELSE <<>>)
    IN  IF Threw(validateConfiguration(apiKey)) THEN validateConfiguration(apiKey)
        ELSE IF paged /\ "limit" \in DOMAIN options /\ Threw(validateLimit(options.limit))
        THEN validateLimit(options.limit)
        ELSE IF paged /\ "offset" \in DOMAIN options /\ Threw(validateOffset(options.offset))
        THEN validateOffset(options.offset)
        ELSE IF ~StatsOptionsSchema(statsOptions)
        THEN Throw(ProxyCheckValidationError(<<"Invalid", "stats", "options", "provided">>))
        ELSE Normal([method |-> "get",
                     url |-> buildUrl(url, queryParams)])

\* a method of the service is called with the arguments call and runs
\* getStats(statType, options): it throws, or makes one get call, which starts
\* request()
StatsCall(call, apiKey, statType, options) ==
    LET prepared == getStats(apiKey, statType, options)
    IN  /\ pc \in {"idle", "done"}
        /\ probeIn' = call @@ [apiKey |-> apiKey]
        /\ IF Threw(prepared)
           THEN /\ probeOut' = [threw |-> prepared.threw, httpCalls |-> <<>>]
                /\ UNCHANGED <<userConfig, config, rateLimitInfo, pc, attempt, lastError,
                               timer, result, calls, sleepCount, lastOutcome, thrown,
                               env, managerConfig, flights, carrier>>
           ELSE /\ probeOut' = [httpCalls |-> <<prepared.value>>]
                /\ RequestCalled

\* getDetections(limit = 100, offset = 0)
GetDetections(apiKey, limit, offset) ==
    StatsCall([fn |-> "getDetections", limit |-> limit, offset |-> offset], apiKey,
              "detections",
              [limit |-> ArgOr(limit, DEFAULT_STATS_LIMIT),
               offset |-> ArgOr(offset, DEFAULT_STATS_OFFSET)])

\* getQueries(limit = 100, offset = 0)
GetQueries(apiKey, limit, offset) ==
    StatsCall([fn |-> "getQueries", limit |-> limit, offset |-> offset], apiKey,
              "queries",
              [limit |-> ArgOr(limit, DEFAULT_STATS_LIMIT),
               offset |-> ArgOr(offset, DEFAULT_STATS_OFFSET)])

\* getQueriesPaginated(page = 1, pageSize = 100): getQueries(pageSize, offset)
GetQueriesPaginated(apiKey, page, pageSize) ==
    StatsCall([fn |-> "getQueriesPaginated", page |-> page, pageSize |-> pageSize], apiKey,
              "queries",
              [limit |-> ArgOr(pageSize, DEFAULT_STATS_LIMIT),
               offset |-> (ArgOr(page, DEFAULT_PAGE) - 1) * ArgOr(pageSize, DEFAULT_STATS_LIMIT)])

\* getUsage()
GetUsage(apiKey) == StatsCall([fn |-> "getUsage"], apiKey, "usage", <<>>)

NextStats ==
    \/ \E apiKey \in ApiKeys,
          limit \in { <<>>, <<0>>, <<1>>, <<50>>, <<MAX_STATS_LIMIT + 1>> },
          offset \in { <<>>, <<-1>>, <<0>>, <<50>> } :
           \/ GetDetections(apiKey, limit, offset)
           \/ GetQueries(apiKey, limit, offset)
    \/ \E apiKey \in ApiKeys,
          page \in { <<>>, <<1>>, <<2>>, <<3>> },
          pageSize \in { <<>>, <<10>>, <<50>> } :
           GetQueriesPaginated(apiKey, page, pageSize)
    \/ \E apiKey \in ApiKeys : GetUsage(apiKey)
    \/ \E response \in CheckResponses : AttemptSucceeds(response)
    \/ \E error \in CheckFailures : AttemptFails(error, 0)
    \/ SleepElapsed

\* the service on the engine of InitCheck
SpecStats == InitCheck /\ [][NextStats]_vars

-----------------------------------------------------------------------------
(* Properties *)

HasStatus(error) == "statusCode" \in DOMAIN error

Rejected == pc = "done" /\ "rejected" \in DOMAIN result

Resolved == pc = "done" /\ "resolved" \in DOMAIN result

\* the retryability rule as stated: a RateLimitError, a status code >= 500, a
\* NetworkError or a TimeoutError
RetryableAsStated(error) ==
    \/ error.name = "ProxyCheckRateLimitError"
    \/ HasStatus(error) /\ error.statusCode >= 500
    \/ error.name \in {"ProxyCheckNetworkError", "ProxyCheckTimeoutError"}

\* C1: a request() call of an engine configured with retry count maxRetries makes
\* at most maxRetries + 1 transport attempts (the configured value, 0 included).
C1_AtMostConfiguredRetriesPlusOne ==
    "retries" \in DOMAIN userConfig => calls <= userConfig.retries + 1

\* C2: isRetryableError is true exactly for a RateLimitError, a status code >= 500,
\* a NetworkError and a TimeoutError; it is false for an AuthenticationError, a
\* ValidationError, a 4xx APIError and the base error without a status code.
C2_RetryabilityRule ==
    probeOut # Undefined =>
        /\ probeOut.value = RetryableAsStated(probeIn)
        /\ probeIn.name \in {"ProxyCheckAuthenticationError", "ProxyCheckValidationError"}
               => ~probeOut.value
        /\ (/\ probeIn.name = "ProxyCheckAPIError"
            /\ probeIn.statusCode >= 400
            /\ probeIn.statusCode <= 499) => ~probeOut.value
        /\ (probeIn.name = "ProxyCheckError" /\ ~HasStatus(probeIn)) => ~probeOut.value

C2_Witness ==
    /\ probeOut # Undefined
    /\ probeIn.name = "ProxyCheckRateLimitError"
    /\ probeOut.value

ClientErrorStatuses == {400, 401, 403, 404}

\* C3: an attempt that fails with a classified error of status 400, 401, 403 or 404
\* ends the call: request() rejects with that error, no delay is started, and when
\* it is the first attempt the call has made exactly 1 attempt and no sleep.
C3_ClientErrorNotRetried ==
    (thrown # Undefined /\ HasStatus(thrown) /\ thrown.statusCode \in ClientErrorStatuses)
        => /\ pc = "done"
           /\ result = [rejected |-> thrown]
           /\ timer = <<>>
           /\ sleepCount = calls - 1
           /\ calls = 1 => sleepCount = 0

C3_Witness ==
    /\ thrown # Undefined /\ HasStatus(thrown) /\ thrown.statusCode = 403
    /\ config.retries = DEFAULT_RETRIES
    /\ calls = 1
    /\ sleepCount = 0
    /\ Rejected

C5_SuccessAfterRetries ==
    Resolved
        => /\ "response" \in DOMAIN lastOutcome
           /\ result.resolved = lastOutcome.response.data
           /\ calls = attempt + 1
           /\ sleepCount = attempt
           /\ attempt <= config.retries
           /\ timer = <<>>

C5_Witness ==
    /\ Resolved
    /\ calls = 3
    /\ sleepCount = 2
    /\ thrown # Undefined /\ thrown.name = "ProxyCheckNetworkError"

\* the delay is the server's: a RateLimitError whose retryAfter is honoured
RateLimitOverride(error) ==
    isRateLimitError(error) /\ TruthyNum(error.retryAfter)

\* C6: after a RateLimitError with retryAfter = r on a non-final attempt the delay
\* awaited is exactly r * 1000 ms, for every r (0 included).
C6_RetryAfterIsTheDelay ==
    (pc = "sleeping" /\ isRateLimitError(lastError) /\ IsNum(lastError.retryAfter))
        => timer = <<lastError.retryAfter.num * MS_PER_SECOND>>

\* the retry base delay the caller configured (the default when none is given)
ConfiguredRetryDelay ==
    IF "retryDelay" \in DOMAIN userConfig THEN userConfig.retryDelay
    ELSE DEFAULT_RETRY_DELAY

\* C7: the delay after a retryable error on attempt n that is not a rate-limit
\* override lies in [baseDelay * 2^n, baseDelay * 2^n + 1000), baseDelay being the
\* configured retry base delay (0 included).
C7_BackoffRange ==
    (pc = "sleeping" /\ ~RateLimitOverride(lastError))
        => /\ timer[1] >= ConfiguredRetryDelay * Pow2(attempt)
           /\ timer[1] < ConfiguredRetryDelay * Pow2(attempt) + JITTER_SPAN

RateLimitHeaderNames ==
    {"x-ratelimit-limit", "x-ratelimit-remaining", "x-ratelimit-reset", "retry-after"}

CarriesRateLimitHeaders(headers) ==
    \E h \in RateLimitHeaderNames : h \in DOMAIN headers /\ headers[h] # <<>>

\* the response of the last transport outcome, <<>> when it had none
OutcomeResponse(outcome) ==
    IF "response" \in DOMAIN outcome /\ outcome.response # Undefined
           /\ outcome.response # Null
    THEN <<outcome.response>> ELSE <<>>

\* C8: after a response that carries any of the rate-limit headers the snapshot is
\* the tuple parsed from that response alone: limit, remaining (0 if missing),
\* reset = header * 1000, retryAfter (0 if missing).
C8_SnapshotIsLastResponse ==
    \A r \in {OutcomeResponse(lastOutcome)[i] : i \in 1..Len(OutcomeResponse(lastOutcome))} :
        CarriesRateLimitHeaders(r.headers)
            => /\ rateLimitInfo # Undefined
               /\ rateLimitInfo.remaining
                      = ParseInt(HeaderOr(r.headers, "x-ratelimit-remaining", <<"0">>))
               /\ rateLimitInfo.reset
                      = TimesK(ParseInt(HeaderOr(r.headers, "x-ratelimit-reset", <<"0">>)),
                               MS_PER_SECOND)
               /\ rateLimitInfo.retryAfter
                      = ParseInt(HeaderOr(r.headers, "retry-after", <<"0">>))
               /\ "x-ratelimit-limit" \in DOMAIN r.headers
                      => rateLimitInfo.limit = ParseInt(r.headers["x-ratelimit-limit"])

\* C9: the snapshot is undefined at first, and it changes only in a step in which
\* the transport delivers a response that carries rate-limit headers: a response
\* without them and a failure without a response leave it as it was.
C9_SnapshotFrame ==
    /\ rateLimitInfo = Undefined
    /\ [][rateLimitInfo' # rateLimitInfo
            => /\ calls' = calls + 1
               /\ OutcomeResponse(lastOutcome') # <<>>
               /\ CarriesRateLimitHeaders(OutcomeResponse(lastOutcome')[1].headers)]_vars

C9_Witness ==
    /\ rateLimitInfo # Undefined
    /\ calls >= 2
    /\ lastOutcome # Undefined
    /\ OutcomeResponse(lastOutcome) = <<>>

\* C10: every rejection of request() is a typed error (the classifier returns one
\* for every raw failure and never raises).
C10_RejectionsAreTyped ==
    Rejected => isProxyCheckError(result.rejected)

-----------------------------------------------------------------------------
(* Properties of CheckService.checkAddresses (SpecCheck) *)

CheckCalled == probeIn # Undefined /\ probeIn.fn = "checkAddresses"

\* an address that is empty or consists of white space
BlankAddress(a) == IsStr(a) /\ \A i \in 1..Len(a.str) : a.str[i] = " "

HasBlankAddress(addresses) ==
    \/ BlankAddress(addresses)
    \/ IsArr(addresses) /\ \E i \in 1..Len(addresses.arr) : BlankAddress(addresses.arr[i])

EmptyAddressList(addresses) == IsArr(addresses) /\ Len(addresses.arr) = 0

\* the calls the checkAddresses call made on the HTTP client
HttpCalls(method) == SelectSeq(probeOut.httpCalls, LAMBDA c : c.method = method)

\* C11: checkAddresses called with the API key missing, with an empty or blank
\* address, with an empty address list or with options that fail the schema
\* rejects with a ValidationError and makes no call on the HTTP client, neither
\* get nor postForm.
C11_InvalidInputRejectedBeforeTransport ==
    (/\ CheckCalled
     /\ \/ probeIn.apiKey = ""
        \/ HasBlankAddress(probeIn.addresses)
        \/ EmptyAddressList(probeIn.addresses)
        \/ ~ProxyCheckOptionsSchema(probeIn.options))
    => /\ "threw" \in DOMAIN probeOut
       /\ isValidationError(probeOut.threw)
       /\ HttpCalls("get") = <<>>
       /\ HttpCalls("postForm") = <<>>

\* a blank address in a list of two, the key configured and the options valid,
\* after an earlier call went through the engine
C11_Witness ==
    /\ CheckCalled
    /\ probeIn.apiKey = "k"
    /\ probeIn.options = <<>>
    /\ probeIn.addresses = Arr(<<Str(<<"1", ".", "1">>), Str(<<" ">>)>>)
    /\ "threw" \in DOMAIN probeOut
    /\ pc = "done"

\* the processed address list of the call, and the address a GET carries
SentAddresses ==
    processAddresses(probeIn.addresses, Flag(probeIn.options, "maskAddress"))

SingleSent == IF IsArr(SentAddresses) THEN SentAddresses.arr[1].str ELSE SentAddresses.str

\* the URL s has the path p: s is p, or p followed by "?" and a query
HasPath(s, p) ==
    /\ Len(s) >= Len(p)
    /\ SubSeq(s, 1, Len(p)) = p
    /\ Len(s) > Len(p) => s[Len(p) + 1] = "?"

\* C12: a checkAddresses call that passes the validations makes exactly one
\* call on the HTTP client: for an array of two or more addresses a postForm
\* whose body field ips is the comma-joined addresses, and no get; for a single
\* string or a one-element array a get whose URL path is the endpoint followed
\* by the percent-encoded address, and no postForm.
C12_DispatchByAddressCount ==
    (CheckCalled /\ "threw" \notin DOMAIN probeOut)
    => IF IsArr(probeIn.addresses) /\ Len(probeIn.addresses.arr) > 1
       THEN /\ Len(HttpCalls("postForm")) = 1
            /\ HttpCalls("get") = <<>>
            /\ HttpCalls("postForm")[1].data.ips = Str(Join(Strings(SentAddresses), ","))
       ELSE /\ Len(HttpCalls("get")) = 1
            /\ HttpCalls("postForm") = <<>>
            /\ HasPath(HttpCalls("get")[1].url.str,
                       API_ENDPOINTS_CHECK \o encodeURIComponent(SingleSent))

\* the same with the addresses "." and ".." left out
C12_DispatchExceptDotAddresses ==
    (CheckCalled /\ probeIn.addresses \in {Str(<<".">>), Str(<<".", ".">>)})
        \/ C12_DispatchByAddressCount

-----------------------------------------------------------------------------
(* Properties of ConfigManager (SpecConfig) *)

\* C13: in every state reachable by constructing a ConfigManager and then
\* calling updateConfig and setApiKey in any order, calls that throw a
\* ValidationError included, the stored configuration satisfies the client
\* configuration schema (apiKey non-empty, timeout > 0, retries >= 0,
\* retryDelay >= 0); a construction whose API key is empty throws a
\* ValidationError and leaves no ConfigManager.
C13_StoredConfigIsValid ==
    /\ managerConfig # Undefined => ClientConfigSchema(managerConfig)
    /\ (/\ probeIn # Undefined
        /\ probeIn.fn = "constructor"
        /\ buildConfig(probeIn.userConfig, env).apiKey = "")
       => /\ Threw(probeOut)
          /\ isValidationError(probeOut.threw)
          /\ managerConfig = Undefined

\* the same for the states in which the last call did not throw
C13_StoredConfigIsValidUnlessThrown ==
    (probeOut # Undefined /\ Threw(probeOut) /\ probeIn.fn # "constructor")
        \/ C13_StoredConfigIsValid

\* a user value of a number option that the schema accepts
ValidNumber(field, n) == IF field = "timeout" THEN n > 0 ELSE n >= 0

\* what the precedence rule gives for a number option: the user value if
\* supplied, else the value of the environment variable, else the default
NumberByPrecedence(cfg, e, field, variable, dflt) ==
    IF field \in DOMAIN cfg THEN cfg[field]
    ELSE IF variable \in DOMAIN e THEN ParseInt(e[variable]).num
    ELSE dflt

TextByPrecedence(cfg, e, field, variable, dflt) ==
    IF field \in DOMAIN cfg THEN cfg[field]
    ELSE IF variable \in DOMAIN e THEN e[variable]
    ELSE dflt

\* the user values and the environment values are schema-valid
ValidSources(cfg, e) ==
    /\ "apiKey" \in DOMAIN cfg => cfg.apiKey # ""
    /\ \A f \in {"timeout", "retries", "retryDelay"} :
           f \in DOMAIN cfg => ValidNumber(f, cfg[f])
    /\ "PROXYCHECK_TIMEOUT" \in DOMAIN e
           => /\ IsNum(ParseInt(e.PROXYCHECK_TIMEOUT))
              /\ ParseInt(e.PROXYCHECK_TIMEOUT).num > 0
    /\ \A v \in {"PROXYCHECK_RETRIES", "PROXYCHECK_RETRY_DELAY"} :
           v \in DOMAIN e => IsNum(ParseInt(e[v])) /\ ParseInt(e[v]).num >= 0

Constructed ==
    /\ probeIn # Undefined
    /\ probeIn.fn = "constructor"
    /\ managerConfig # Undefined

\* C14: for apiKey, baseUrl, timeout, retries, retryDelay and tlsSecurity the
\* configuration a constructor builds holds the user value if one is supplied,
\* else the value of the environment variable, else the default; this includes
\* the explicitly supplied values retries = 0 and retryDelay = 0.
C14_UserThenEnvThenDefault ==
    (Constructed /\ ValidSources(probeIn.userConfig, env))
    => LET cfg == probeIn.userConfig
       IN  /\ managerConfig.apiKey
                  = TextByPrecedence(cfg, env, "apiKey", "PROXYCHECK_API_KEY", "")
           /\ managerConfig.baseUrl
                  = TextByPrecedence(cfg, env, "baseUrl", "PROXYCHECK_BASE_URL",
                                     "proxycheck.io")
           /\ managerConfig.timeout
                  = NumberByPrecedence(cfg, env, "timeout", "PROXYCHECK_TIMEOUT",
                                       DEFAULT_TIMEOUT)
           /\ managerConfig.retries
                  = NumberByPrecedence(cfg, env, "retries", "PROXYCHECK_RETRIES",
                                       DEFAULT_RETRIES)
           /\ managerConfig.retryDelay
                  = NumberByPrecedence(cfg, env, "retryDelay", "PROXYCHECK_RETRY_DELAY",
                                       DEFAULT_RETRY_DELAY)
           /\ managerConfig.tlsSecurity
                  = IF "tlsSecurity" \in DOMAIN cfg THEN cfg.tlsSecurity
                    ELSE IF "PROXYCHECK_TLS_SECURITY" \in DOMAIN env
                    THEN env.PROXYCHECK_TLS_SECURITY = "true"
                    ELSE TRUE

\* the same where no user value and no environment value of retries and
\* retryDelay is 0
C14_PrecedenceExceptZero ==
    (/\ Constructed
     /\ \/ \E f \in {"retries", "retryDelay"} :
               f \in DOMAIN probeIn.userConfig /\ probeIn.userConfig[f] = 0
        \/ \E v \in {"PROXYCHECK_RETRIES", "PROXYCHECK_RETRY_DELAY"} :
               v \in DOMAIN env /\ ParseInt(env[v]) = Num(0))
        \/ C14_UserThenEnvThenDefault

-----------------------------------------------------------------------------
(* Properties of the pure functions (SpecPure) *)

\* the call of fn has returned or thrown
Called(fn) == probeIn # Undefined /\ probeIn.fn = fn /\ probeOut # Undefined

\* what follows the last c of s
RECURSIVE AfterLast(_, _)
AfterLast(s, c) ==
    IF Includes(s, c) THEN AfterLast(SubSeq(s, IndexFrom(s, c, 1) + 1, Len(s)), c) ELSE s

\* an address with its local part replaced: "anonymous@" and the domain part,
\* which is what follows the last "@"; an address without "@" is unchanged
Anonymised(a) ==
    IF Includes(a.str, "@") THEN Str(<<"anonymous", "@">> \o AfterLast(a.str, "@")) ELSE a

\* C15: with masking enabled processAddresses rewrites every address that
\* contains "@" to "anonymous@" followed by its domain part and leaves the
\* others unchanged, element by element for an array (same length, same order)
\* and for a single value; with masking disabled it returns its input.
C15_MaskingRewritesEmails ==
    Called("processAddresses")
    => LET a == probeIn.addresses
           out == probeOut.value
       IN  IF ~probeIn.maskAddress THEN out = a
           ELSE IF IsArr(a)
           THEN /\ IsArr(out)
                /\ Len(out.arr) = Len(a.arr)
                /\ \A i \in 1..Len(a.arr) : out.arr[i] = Anonymised(a.arr[i])
           ELSE out = Anonymised(a)

\* the same for addresses with at most one "@"
AtMostOneAt(a) ==
    ~Includes(a.str, "@") \/ IndexFrom(a.str, "@", IndexFrom(a.str, "@", 1) + 1) = 0

C15_MaskingExceptSeveralAts ==
    (/\ Called("processAddresses")
     /\ \E i \in 1..Len(AddressList(probeIn.addresses)) :
            ~AtMostOneAt(AddressList(probeIn.addresses)[i]))
        \/ C15_MaskingRewritesEmails

\* C16: mergeCountryOptions returns options with asnData = true whenever
\* allowedCountries or blockedCountries is a non-empty array, also when the
\* caller passed asnData: false, and options with identical contents otherwise;
\* it never removes or alters a country list or another option, and it does not
\* write its argument.
C16_CountryListsForceAsn ==
    Called("mergeCountryOptions")
    => LET o == probeIn.options
           merged == probeOut.value
           restricted == \E k \in {"allowedCountries", "blockedCountries"} :
                             k \in DOMAIN o /\ o[k] # <<>>
       IN  /\ restricted => "asnData" \in DOMAIN merged /\ merged.asnData = TRUE
           /\ ~restricted => merged = o
           /\ DOMAIN merged \subseteq DOMAIN o \cup {"asnData"}
           /\ \A k \in DOMAIN o \ {"asnData"} : k \in DOMAIN merged /\ merged[k] = o[k]
           /\ probeOut.options = o

\* a blocked list with asnData: false
C16_Witness ==
    /\ Called("mergeCountryOptions")
    /\ "blockedCountries" \in DOMAIN probeIn.options
    /\ probeIn.options.blockedCountries = <<"CN", "RU">>
    /\ "asnData" \in DOMAIN probeIn.options
    /\ probeIn.options.asnData = FALSE
    /\ probeOut.value.asnData = TRUE

QueryKeys == {"key", "vpn", "asn", "risk", "inf", "days", "node", "port", "seen"}

\* C17: buildQueryParams always sets node = 1, port = 1 and seen = 1; key is the
\* option-level apiKey when one is present (a non-empty string), else the
\* ambient key; vpn and risk are included whenever the option is defined, level
\* 0 included; asn = 1 and inf = 1 are set only when the flag is true; there is
\* no key other than key, vpn, asn, risk, inf, days, node, port and seen.
C17_QueryParams ==
    Called("buildQueryParams")
    => LET o == probeIn.options
           p == probeOut.value
           optionKey == IF "apiKey" \in DOMAIN o THEN o.apiKey ELSE ""
           expectedKey == IF optionKey # "" THEN optionKey ELSE probeIn.apiKey
       IN  /\ p.node = Num(1) /\ p.port = Num(1) /\ p.seen = Num(1)
           /\ IF expectedKey # ""
              THEN "key" \in DOMAIN p /\ p.key = Str(<<expectedKey>>)
              ELSE "key" \notin DOMAIN p
           /\ "vpnDetection" \in DOMAIN o
                  => "vpn" \in DOMAIN p /\ p.vpn = Num(o.vpnDetection)
           /\ "riskData" \in DOMAIN o => "risk" \in DOMAIN p /\ p.risk = Num(o.riskData)
           /\ "asn" \in DOMAIN p <=> ("asnData" \in DOMAIN o /\ o.asnData)
           /\ "asn" \in DOMAIN p => p.asn = Num(1)
           /\ "inf" \in DOMAIN p <=> ("infEngine" \in DOMAIN o /\ o.infEngine)
           /\ "inf" \in DOMAIN p => p.inf = Num(1)
           /\ DOMAIN p \subseteq QueryKeys

\* levels 0 with an option-level key and an ambient key
C17_Witness ==
    /\ Called("buildQueryParams")
    /\ "vpnDetection" \in DOMAIN probeIn.options /\ probeIn.options.vpnDetection = 0
    /\ "riskData" \in DOMAIN probeIn.options /\ probeIn.options.riskData = 0
    /\ "apiKey" \in DOMAIN probeIn.options /\ probeIn.options.apiKey = "ko"
    /\ probeIn.apiKey = "k"
    /\ probeOut.value.vpn = Num(0)
    /\ probeOut.value.key = Str(<<"ko">>)

\* the path and the query entries of a URL string
PathOf(s) == IF Includes(s, "?") THEN SubSeq(s, 1, IndexFrom(s, "?", 1) - 1) ELSE s

QueryEntriesOf(s) ==
    IF Includes(s, "?")
    THEN SplitOn(SubSeq(s, IndexFrom(s, "?", 1) + 1, Len(s)), "&")
    ELSE <<>>

\* the entries the parameters with a value call for: name=value, the value
\* form-encoded
ExpectedEntries(params) ==
    { <<k, "=">> \o FormEncode(String(params[k])) :
        k \in { x \in DOMAIN params : params[x] # Undefined /\ params[x] # Null } }

UrlAsStated(url, params) ==
    /\ ~(url # <<>> /\ Head(url) = "/")
    /\ { QueryEntriesOf(url)[i] : i \in 1..Len(QueryEntriesOf(url)) } = ExpectedEntries(params)
    /\ Len(QueryEntriesOf(url)) = Cardinality(ExpectedEntries(params))

\* C18: buildUrl and buildUrlWithAddress return a string that does not start
\* with "/" and has a query entry for exactly the parameters whose value is
\* neither undefined nor null; the path of what buildUrlWithAddress returns is
\* the endpoint without its trailing slash, "/" and the percent-encoded address.
C18_UrlShape ==
    /\ Called("buildUrl") => UrlAsStated(probeOut.value.str, probeIn.params)
    /\ Called("buildUrlWithAddress")
           => /\ UrlAsStated(probeOut.value.str, probeIn.params)
              /\ PathOf(probeOut.value.str)
                     = CleanEndpoint(probeIn.endpoint) \o <<"/">>
                           \o [i \in 1..Len(probeIn.address) |-> EncodeToken(probeIn.address[i])]

\* the same with the addresses "." and ".." left out
C18_UrlShapeExceptDotAddresses ==
    (Called("buildUrlWithAddress") /\ probeIn.address \in {<<".">>, <<".", ".">>})
        \/ C18_UrlShape

\* the raw failure carries a response
CarriesResponse(e) ==
    IsObject(e) /\ "response" \in DOMAIN e /\ e.response # Undefined /\ e.response # Null

TimeoutIndicator(e) ==
    /\ IsObject(e)
    /\ \/ "code" \in DOMAIN e /\ e.code = "ECONNABORTED"
       \/ "message" \in DOMAIN e /\ \E i \in 1..Len(e.message) : e.message[i] = "timeout"

\* C20: createErrorFromResponse classifies in this order: a response with
\* status 429 gives a RateLimitError, with status 401 an AuthenticationError
\* with statusCode 401, with any other status an APIError with that status; no
\* response but a timeout indicator (code ECONNABORTED or "timeout" in the
\* message) gives a TimeoutError, also when a request was sent; no response but
\* a sent request gives a NetworkError; anything else the base error.
C20_ClassifierPriority ==
    Called("createErrorFromResponse")
    => LET e == probeIn.error
       IN  /\ ~Threw(probeOut)
           /\ IF CarriesResponse(e)
              THEN IF e.response.status = HTTP_TOO_MANY_REQUESTS
                   THEN probeOut.value.name = "ProxyCheckRateLimitError"
                   ELSE IF e.response.status = HTTP_UNAUTHORIZED
                   THEN /\ probeOut.value.name = "ProxyCheckAuthenticationError"
                        /\ probeOut.value.statusCode = HTTP_UNAUTHORIZED
                   ELSE /\ probeOut.value.name = "ProxyCheckAPIError"
                        /\ probeOut.value.statusCode = e.response.status
              ELSE IF TimeoutIndicator(e)
              THEN probeOut.value.name = "ProxyCheckTimeoutError"
              ELSE IF IsObject(e) /\ "request" \in DOMAIN e
              THEN probeOut.value.name = "ProxyCheckNetworkError"
              ELSE probeOut.value.name = "ProxyCheckError"

\* the same for the failures on which the classifier does not raise
C20_PriorityUnlessRaised ==
    (Called("createErrorFromResponse") /\ Threw(probeOut)) \/ C20_ClassifierPriority

-----------------------------------------------------------------------------
(* Properties of StatsService (SpecStats) *)

\* the call fn made a get call on the HTTP client
Fetched(fn) ==
    /\ probeIn # Undefined
    /\ probeIn.fn = fn
    /\ "threw" \notin DOMAIN probeOut
    /\ Len(probeOut.httpCalls) = 1
    /\ probeOut.httpCalls[1].method = "get"

\* the URL of the get call has the path of the export endpoint of statType and
\* the query entries limit and offset
SendsPagination(statType, limit, offset) ==
    LET url == probeOut.httpCalls[1].url.str
        entries == { QueryEntriesOf(url)[i] : i \in 1..Len(QueryEntriesOf(url)) }
    IN  /\ PathOf(url) = API_ENDPOINTS_EXPORT \o <<statType, "/">>
        /\ <<"limit", "=", ToString(limit)>> \in entries
        /\ <<"offset", "=", ToString(offset)>> \in entries

\* C19: getQueries(limit, offset) and getQueriesPaginated(page, pageSize) send
\* limit and offset, offset = (page - 1) * pageSize for the latter, as query
\* parameters of the GET to the queries export endpoint, as getDetections does
\* for the detections export endpoint.
C19_QueriesSendPagination ==
    /\ Fetched("getQueries")
           => SendsPagination("queries", ArgOr(probeIn.limit, DEFAULT_STATS_LIMIT),
                              ArgOr(probeIn.offset, DEFAULT_STATS_OFFSET))
    /\ Fetched("getQueriesPaginated")
           => SendsPagination("queries", ArgOr(probeIn.pageSize, DEFAULT_STATS_LIMIT),
                              (ArgOr(probeIn.page, DEFAULT_PAGE) - 1)
                                  * ArgOr(probeIn.pageSize, DEFAULT_STATS_LIMIT))
    /\ Fetched("getDetections")
           => SendsPagination("detections", ArgOr(probeIn.limit, DEFAULT_STATS_LIMIT),
                              ArgOr(probeIn.offset, DEFAULT_STATS_OFFSET))

\* getDetections alone sends them
C19_DetectionsSendPagination ==
    Fetched("getDetections")
        => SendsPagination("detections", ArgOr(probeIn.limit, DEFAULT_STATS_LIMIT),
                           ArgOr(probeIn.offset, DEFAULT_STATS_OFFSET))


-----------------------------------------------------------------------------
(* Properties of the rate-limit default (Spec) *)

\* the last transport outcome is a 429 response without a retry-after header
RateLimitedWithoutRetryAfter ==
    /\ lastOutcome # Undefined
    /\ OutcomeResponse(lastOutcome) # <<>>
    /\ "isError" \in DOMAIN lastOutcome
    /\ lastOutcome.response.status = HTTP_TOO_MANY_REQUESTS
    /\ "retry-after" \notin DOMAIN lastOutcome.response.headers

\* C21: a 429 response without a retry-after header is classified as a
\* RateLimitError with retryAfter = 60; on a non-final attempt the call then sleeps
\* exactly 60000 ms (not the backoff value), and only the final attempt ends it.
C21_DefaultRetryAfter ==
    RateLimitedWithoutRetryAfter
        => /\ isRateLimitError(thrown)
           /\ thrown.retryAfter = Num(60)
           /\ pc = "sleeping" => timer = <<60 * MS_PER_SECOND>>
           /\ pc = "done" => (attempt = config.retries /\ result = [rejected |-> thrown])

C21_Witness ==
    /\ RateLimitedWithoutRetryAfter
    /\ pc = "sleeping"
    /\ attempt = 1
    /\ config.retryDelay = DEFAULT_RETRY_DELAY
    /\ timer = <<60000>>


-----------------------------------------------------------------------------
(* Several request() calls in flight on one engine                           *)
(*   Each call is a flight: its position in request(), the locals of its    *)
(*   loop, and what it has logged. A transport completion runs the response *)
(*   interceptor at once (it updates the shared snapshot); request() resumes *)
(*   after its await in a later step, so handlers of other calls can run    *)
(*   between the two.                                                       *)

\* request() calls made on the engine
MaxCalls == 2

\* response interceptor, fulfilled: updateRateLimitInfo(response), and the
\* awaited transport promise of call c is fulfilled with the response
OnFulfilled(c, response) ==
    /\ flights[c].pc = "attempting"
    /\ rateLimitInfo' = updateRateLimitInfo(rateLimitInfo, response.headers)
    /\ flights' = [flights EXCEPT ![c] =
                       [@ EXCEPT !.pc = "fulfilled", !.settled = response,
                                 !.calls = @ + 1]]
    /\ carrier' = [any |-> IF CarriesRateLimitHeaders(response.headers)
                           THEN response.headers ELSE carrier.any,
                   limited |-> IF "x-ratelimit-limit" \in DOMAIN response.headers
                               THEN response.headers ELSE carrier.limited]
    /\ UNCHANGED <<userConfig, config, pc, attempt, lastError, timer, result, calls,
                   sleepCount, lastOutcome, thrown, probeIn, probeOut, env,
                   managerConfig>>

\* response interceptor, rejected: updateRateLimitInfo(error.response) when the
\* failure has a response, and the awaited transport promise of call c is
\* rejected with the classified error
OnRejected(c, error) ==
    /\ flights[c].pc = "attempting"
    /\ rateLimitInfo' = OnRejectedInfo(rateLimitInfo, error)
    /\ flights' = [flights EXCEPT ![c] =
                       [@ EXCEPT !.pc = "rejected",
                                 !.settled = createErrorFromResponse(error),
                                 !.calls = @ + 1]]
    /\ carrier' = IF HasResponse(error)
                  THEN [any |-> IF CarriesRateLimitHeaders(error.response.headers)
                                THEN error.response.headers ELSE carrier.any,
                        limited |-> IF "x-ratelimit-limit" \in DOMAIN error.response.headers
                                    THEN error.response.headers ELSE carrier.limited]
                  ELSE carrier
    /\ UNCHANGED <<userConfig, config, pc, attempt, lastError, timer, result, calls,
                   sleepCount, lastOutcome, thrown, probeIn, probeOut, env,
                   managerConfig>>

\* request(requestConfig) is called: the start event is logged and the loop
\* starts its first attempt
StartRequest(c) ==
    /\ flights[c].pc = "idle"
    /\ flights' = [flights EXCEPT ![c] =
                       [pc |-> "attempting", attempt |-> 0, lastError |-> Undefined,
                        timer |-> <<>>, result |-> Undefined, settled |-> Undefined,
                        calls |-> 0, slept |-> <<>>,
                        log |-> << [level |-> "debug",
                                    message |-> "HTTP request starting"] >>]]
    /\ UNCHANGED <<userConfig, config, rateLimitInfo, pc, attempt, lastError, timer,
                   result, calls, sleepCount, lastOutcome, thrown, probeIn, probeOut,
                   env, managerConfig, carrier>>

\* request() resumes in its try block: the completion event is logged and
\* response.data is returned
Returned(c) ==
    /\ flights[c].pc = "fulfilled"
    /\ flights' = [flights EXCEPT ![c] =
           [@ EXCEPT !.pc = "done",
                     !.result = [resolved |-> ResponseData(flights[c].settled)],
                     !.log = Append(@,
                         [level |-> "info", message |-> "HTTP request completed",
                          statusCode |-> flights[c].settled.status]
                         @@ (IF flights[c].attempt > 0
                             THEN [retryAttempt |-> flights[c].attempt] ELSE <<>>))]]
    /\ UNCHANGED <<userConfig, config, rateLimitInfo, pc, attempt, lastError, timer,
                   result, calls, sleepCount, lastOutcome, thrown, probeIn, probeOut,
                   env, managerConfig, carrier>>

\* the terminal-failure event logged at the level of a retry
FailedEventAsWarn == [level |-> "warn", message |-> "HTTP request failed after all retries",
                      attempts |-> config.retries + 1]

\* the terminal-failure event of request(), logged before throw lastError
FailedEvent == [level |-> "error", message |-> "HTTP request failed after all retries",
                attempts |-> config.retries + 1]

\* request() resumes in its catch block: it leaves the loop, logs the terminal
\* failure and throws lastError, or it computes the delay, logs the retry and
\* starts sleep(delay)
Caught(c, jitter) ==
    LET f == flights[c]
        error == CaughtError(f.settled)
        delay == RetryDelay(f.attempt, config.retryDelay, jitter, error)
    IN  /\ f.pc = "rejected"
        /\ flights' = [flights EXCEPT ![c] =
               IF BreaksLoop(f.attempt, config.retries, error)
               THEN [f EXCEPT !.pc = "done", !.lastError = error,
                              !.result = [rejected |-> error],
                              !.log = Append(@, FailedEvent)]
               ELSE [f EXCEPT !.pc = "sleeping", !.lastError = error,
                              !.timer = <<delay>>,
                              !.slept = Append(@, delay),
                              !.log = Append(@,
                                  [level |-> "warn",
                                   message |-> "HTTP request failed, retrying",
                                   retryAttempt |-> f.attempt + 1,
                                   maxRetries |-> config.retries,
                                   delayMs |-> delay])]]
        /\ UNCHANGED <<userConfig, config, rateLimitInfo, pc, attempt, lastError, timer,
                       result, calls, sleepCount, lastOutcome, thrown, probeIn,
                       probeOut, env, managerConfig, carrier>>

\* a sleep whose timer never resolves the promise: the call stays as it is
TimerFiredRearmed(c) ==
    /\ flights[c].pc = "sleeping"
    /\ UNCHANGED vars

\* the timer of sleep(delay) of call c fires: attempt++ and the loop condition
TimerFired(c) ==
    LET f == flights[c]
    IN  /\ f.pc = "sleeping"
        /\ flights' = [flights EXCEPT ![c] =
               IF f.attempt + 1 <= config.retries
               THEN [f EXCEPT !.pc = "attempting", !.timer = <<>>,
                              !.attempt = @ + 1]
               ELSE [f EXCEPT !.pc = "done", !.timer = <<>>, !.attempt = @ + 1,
                              !.result = [rejected |-> f.lastError],
                              !.log = Append(@, FailedEvent)]]
        /\ UNCHANGED <<userConfig, config, rateLimitInfo, pc, attempt, lastError, timer,
                       result, calls, sleepCount, lastOutcome, thrown, probeIn,
                       probeOut, env, managerConfig, carrier>>

\* an engine with a logger, constructed with a retry count, on which no call
\* has been made yet
InitMany ==
    /\ userConfig \in { [apiKey |-> "k", retries |-> n] : n \in 1..MaxCfgRetries }
    /\ config = Constructor(userConfig)
    /\ rateLimitInfo = Undefined
    /\ pc = "idle"
    /\ attempt = 0
    /\ lastError = Undefined
    /\ timer = <<>>
    /\ result = Undefined
    /\ calls = 0
    /\ sleepCount = 0
    /\ lastOutcome = Undefined
    /\ thrown = Undefined
    /\ probeIn = Undefined
    /\ probeOut = Undefined
    /\ env = <<>>
    /\ managerConfig = Undefined
    /\ flights = [c \in 1..MaxCalls |-> [pc |-> "idle"]]
    /\ carrier = [any |-> Undefined, limited |-> Undefined]

\* the transport call of the attempt of call c completes: it answers 200 with
\* or without the limit header, 429 with a retry-after of 5 or 0 seconds, 500
\* or 404
Delivered(c) ==
    \/ \E h \in {OnlyRemaining, AllFour} :
           OnFulfilled(c, [status |-> HTTP_OK, data |-> [status |-> "ok"], headers |-> h])
    \/ \E error \in { FailureWith(HTTP_TOO_MANY_REQUESTS, MessageBody, AllFour),
                      FailureWith(HTTP_TOO_MANY_REQUESTS, MessageBody,
                                  LimitAndZeroRetryAfter),
                      FailureWith(HTTP_INTERNAL_SERVER_ERROR, MessageBody, NoHeaders),
                      FailureWith(404, MessageBody, NoHeaders) } :
           OnRejected(c, error)

NextMany ==
    \E c \in 1..MaxCalls :
        \/ StartRequest(c)
        \/ Delivered(c)
        \/ Returned(c)
        \/ Caught(c, 0)
        \/ TimerFired(c)

SpecMany == InitMany /\ [][NextMany]_vars

\* every transport attempt eventually returns or fails, every resumption of
\* request() eventually runs, and every timer eventually fires
SpecManyLive ==
    /\ SpecMany
    /\ \A c \in 1..MaxCalls :
           /\ WF_vars(Delivered(c))
           /\ WF_vars(Returned(c))
           /\ WF_vars(Caught(c, 0))
           /\ WF_vars(TimerFired(c))


-----------------------------------------------------------------------------
(* Properties of concurrent calls (SpecMany, SpecManyLive) *)

\* the log events of call c at a level
EventsAt(c, level) == SelectSeq(flights[c].log, LAMBDA e : e.level = level)

Started(c) == flights[c].pc # "idle"

Finished(c) == flights[c].pc = "done"

\* C22: with several calls in flight, in every interleaving the snapshot is the
\* complete tuple parsed from the most recently processed response that carried
\* any rate-limit header (last writer wins), never a mixture of two responses.
C22_LastWriterWins ==
    carrier.any # Undefined
        => /\ rateLimitInfo # Undefined
           /\ rateLimitInfo.remaining
                  = ParseInt(HeaderOr(carrier.any, "x-ratelimit-remaining", <<"0">>))
           /\ rateLimitInfo.reset
                  = TimesK(ParseInt(HeaderOr(carrier.any, "x-ratelimit-reset", <<"0">>)),
                           MS_PER_SECOND)
           /\ rateLimitInfo.retryAfter
                  = ParseInt(HeaderOr(carrier.any, "retry-after", <<"0">>))
           /\ "x-ratelimit-limit" \in DOMAIN carrier.any
                  => rateLimitInfo.limit = ParseInt(carrier.any["x-ratelimit-limit"])

\* the same with "carried rate-limit headers" read as "carried the limit header":
\* the snapshot is the whole tuple of the last such response, or undefined
C22_LastLimitedWriterWins ==
    rateLimitInfo = IF carrier.limited = Undefined THEN Undefined
                    ELSE updateRateLimitInfo(Undefined, carrier.limited)

\* C23: concurrent calls run independent retry loops: the attempts a call has
\* made, whether it retries and what it awaits follow from its own outcomes; the
\* delay after its own RateLimitError is that error's retryAfter * 1000 ms,
\* whatever the shared snapshot holds by then.
C23_IndependentRetryLoops ==
    \A c \in 1..MaxCalls :
        LET f == flights[c]
        IN  /\ f.pc \in {"sleeping", "rejected", "fulfilled"} => f.calls = f.attempt + 1
            /\ f.pc = "sleeping"
                   => /\ RetryableAsStated(f.lastError)
                      /\ f.attempt < config.retries
                      /\ IF isRateLimitError(f.lastError) /\ IsNum(f.lastError.retryAfter)
                         THEN f.timer = <<f.lastError.retryAfter.num * MS_PER_SECOND>>
                         ELSE f.timer = <<calculateDelay(f.attempt, config.retryDelay, 0)>>
            /\ (Finished(c) /\ "rejected" \in DOMAIN f.result)
                   => /\ f.result.rejected = f.settled
                      /\ f.attempt = config.retries \/ ~RetryableAsStated(f.settled)

\* the same where the delay of a RateLimitError with retryAfter = 0 is left open
C23_IndependentExceptZeroRetryAfter ==
    \A c \in 1..MaxCalls :
        LET f == flights[c]
        IN  /\ f.pc \in {"sleeping", "rejected", "fulfilled"} => f.calls = f.attempt + 1
            /\ f.pc = "sleeping"
                   => /\ RetryableAsStated(f.lastError)
                      /\ f.attempt < config.retries
                      /\ IF RateLimitOverride(f.lastError)
                         THEN f.timer = <<f.lastError.retryAfter.num * MS_PER_SECOND>>
                         ELSE isRateLimitError(f.lastError)
                              \/ f.timer = <<calculateDelay(f.attempt, config.retryDelay, 0)>>
            /\ (Finished(c) /\ "rejected" \in DOMAIN f.result)
                   => /\ f.result.rejected = f.settled
                      /\ f.attempt = config.retries \/ ~RetryableAsStated(f.settled)

\* a call sleeps 5000 ms after its own RateLimitError while the snapshot holds
\* the retryAfter = 0 of another call's response
C23_SnapshotOverwritten ==
    \E c \in 1..MaxCalls :
        /\ flights[c].pc = "sleeping"
        /\ isRateLimitError(flights[c].lastError)
        /\ flights[c].lastError.retryAfter = Num(5)
        /\ flights[c].timer = <<5000>>
        /\ rateLimitInfo.retryAfter = Num(0)

\* C24: when every transport attempt completes, every resumption runs and every
\* timer fires, each request() call that was made eventually resolves or rejects.
C24_EveryCallSettles ==
    \A c \in 1..MaxCalls : Started(c) ~> Finished(c)

\* a call rejected after retries + 1 attempts that were all answered 429 or 500
C24_Witness ==
    \E c \in 1..MaxCalls :
        /\ Finished(c)
        /\ "rejected" \in DOMAIN flights[c].result
        /\ flights[c].calls = config.retries + 1
        /\ Len(flights[c].slept) = config.retries
        /\ flights[c].result.rejected.statusCode \in {429, 500}

\* C25: the attempt count in the terminal-failure event of a rejected call is
\* the number of transport attempts the call made.
C25_ReportedAttemptsAreActual ==
    \A c \in 1..MaxCalls :
        (Finished(c) /\ "rejected" \in DOMAIN flights[c].result)
            => /\ Len(EventsAt(c, "error")) = 1
               /\ EventsAt(c, "error")[1].attempts = flights[c].calls

\* the same for the calls that exhausted their retries
C25_ReportedAttemptsWhenExhausted ==
    \A c \in 1..MaxCalls :
        (/\ Finished(c)
         /\ "rejected" \in DOMAIN flights[c].result
         /\ flights[c].attempt = config.retries)
            => /\ Len(EventsAt(c, "error")) = 1
               /\ EventsAt(c, "error")[1].attempts = flights[c].calls

\* C26: a call logs one start event first; one warn event per retry, logged when
\* its delay starts, with the 1-based retry number and the delay awaited; and,
\* once it is settled and not before, one terminal event as its last event: info
\* when it resolved, error when it rejected.
C26_LogProtocol ==
    \A c \in 1..MaxCalls :
        Started(c) =>
            LET f == flights[c]
                warns == EventsAt(c, "warn")
                terminal == Len(EventsAt(c, "info")) + Len(EventsAt(c, "error"))
            IN  /\ f.log[1].level = "debug"
                /\ Len(EventsAt(c, "debug")) = 1
                /\ Len(warns) = Len(f.slept)
                /\ Len(warns) = f.attempt + (IF f.pc = "sleeping" THEN 1 ELSE 0)
                /\ \A i \in 1..Len(warns) :
                       /\ warns[i].retryAttempt = i
                       /\ warns[i].delayMs = f.slept[i]
                /\ f.pc = "sleeping" => f.log[Len(f.log)] = warns[Len(warns)]
                                        /\ f.timer = <<warns[Len(warns)].delayMs>>
                /\ ~Finished(c) => terminal = 0
                /\ Finished(c)
                       => /\ terminal = 1
                          /\ Len(warns) = f.calls - 1
                          /\ f.log[Len(f.log)].level
                                 = IF "resolved" \in DOMAIN f.result THEN "info" ELSE "error"

\* a call that retried twice and then failed: start, two warns, one error
C26_Witness ==
    \E c \in 1..MaxCalls :
        /\ Finished(c)
        /\ "rejected" \in DOMAIN flights[c].result
        /\ Len(flights[c].log) = 4
        /\ Len(EventsAt(c, "warn")) = 2
        /\ flights[c].log[4].level = "error"


-----------------------------------------------------------------------------
(* ProxyCheckClient: one ConfigManager and the HttpClient built from it       *)

\* a caller assigns field of the object getConfig() returned to value while
\* the engine holds the object held and returned the copy
AfterMutationAliased(held, field, value) == [held EXCEPT ![field] = value]

\* HttpClient.getConfig() returns { ...this._config }: a caller that assigns
\* field of the returned object changes the copy, and the engine holds what it
\* held
AfterMutation(held, field, value) == held

\* const c = http.getConfig(); c[field] = value
MutateReturnedConfig(field, value) ==
    /\ probeIn' = [fn |-> "getConfig", field |-> field, value |-> value]
    /\ probeOut' = Normal([config EXCEPT ![field] = value])
    /\ config' = AfterMutation(config, field, value)
    /\ UNCHANGED <<userConfig, rateLimitInfo, pc, attempt, lastError, timer, result,
                   calls, sleepCount, lastOutcome, thrown, env, managerConfig, flights,
                   carrier>>

\* new ProxyCheckClient(config): the ConfigManager is built and validated, and
\* the HttpClient is constructed from its full configuration
InitClient ==
    /\ env = <<>>
    /\ \E cfg \in { [apiKey |-> "k"],
                    [apiKey |-> "k", retries |-> 1, retryDelay |-> 500, timeout |-> 5000,
                     baseUrl |-> "user.io", tlsSecurity |-> FALSE] } :
           /\ managerConfig = buildConfig(cfg, env)
           /\ ~Threw(validateConfig(managerConfig))
    /\ userConfig = Restrict(managerConfig,
                             {"apiKey", "baseUrl", "timeout", "retries", "retryDelay",
                              "tlsSecurity", "userAgent"})
    /\ config = Constructor(userConfig)
                @@ [baseUrl |-> IF userConfig.baseUrl # "" THEN userConfig.baseUrl
                                ELSE "proxycheck.io",
                    timeout |-> ConfigOr(userConfig, "timeout", DEFAULT_TIMEOUT),
                    tlsSecurity |-> userConfig.tlsSecurity]
    /\ rateLimitInfo = Undefined
    /\ pc = "idle"
    /\ attempt = 0
    /\ lastError = Undefined
    /\ timer = <<>>
    /\ result = Undefined
    /\ calls = 0
    /\ sleepCount = 0
    /\ lastOutcome = Undefined
    /\ thrown = Undefined
    /\ probeIn = Undefined
    /\ probeOut = Undefined
    /\ flights = <<>>
    /\ carrier = Undefined

\* the client's updateConfig and setApiKey go to the ConfigManager; the engine
\* serves requests that the transport answers 200 or 500
NextClient ==
    \/ \E updates \in { [retries |-> 2], [retries |-> 0, retryDelay |-> 0],
                        [timeout |-> 1], [timeout |-> -1],
                        [baseUrl |-> "other.io", tlsSecurity |-> TRUE] } :
           UpdateConfig(updates)
    \/ \E apiKey \in {"", "k2"} : SetApiKey(apiKey)
    \/ \E field \in {"retries", "retryDelay", "timeout"}, value \in {0, 7} :
           MutateReturnedConfig(field, value)
    \/ Request
    \/ \E response \in CheckResponses : AttemptSucceeds(response)
    \/ \E error \in CheckFailures : AttemptFails(error, 0)
    \/ SleepElapsed

SpecClient == InitClient /\ [][NextClient]_vars

\* C27: the retry count, retry base delay, timeout, base host and TLS flag the
\* engine holds are those of its construction: no updateConfig or setApiKey of
\* the client and no assignment to the object getConfig() returned changes them,
\* and request() runs on them.
C27_EngineConfigFixed ==
    /\ config = [retries |-> ConfigOr(userConfig, "retries", DEFAULT_RETRIES),
                 retryDelay |-> ConfigOr(userConfig, "retryDelay", DEFAULT_RETRY_DELAY),
                 timeout |-> userConfig.timeout,
                 baseUrl |-> userConfig.baseUrl,
                 tlsSecurity |-> userConfig.tlsSecurity]
    /\ calls <= config.retries + 1
    /\ pc = "sleeping" => timer = <<config.retryDelay * Pow2(attempt)>>
    /\ Rejected => calls = config.retries + 1

\* after updates that gave the manager another retry count and delay, and an
\* assignment to the returned object, a call was served on the construction's
C27_Witness ==
    /\ managerConfig.retries = 2
    /\ managerConfig.baseUrl = "other.io"
    /\ config.retries = 1
    /\ config.baseUrl = "user.io"
    /\ probeIn.fn = "getConfig"
    /\ Rejected
    /\ calls = 2


-----------------------------------------------------------------------------
(* Properties of the response of a single-address check (SpecPure) *)

\* the address as the request carried it: masked when maskAddress is set
SentAddress ==
    processAddresses(probeIn.addresses, Flag(probeIn.options, "maskAddress")).str

\* the result the response holds for that address
SentResult == probeIn.response.results[SentAddress]

\* the result of the single address, passed as a string, has proxy = "yes"
SingleProxyResult ==
    /\ Called("checkAddresses")
    /\ IsStr(probeIn.addresses)
    /\ SentAddress \in DOMAIN probeIn.response.results
    /\ "proxy" \in DOMAIN SentResult
    /\ SentResult.proxy = "yes"

\* the result's country or isocode is in a non-empty allowedCountries list
AllowedCountry ==
    LET r == SentResult
        allowed == IF "allowedCountries" \in DOMAIN probeIn.options
                   THEN probeIn.options.allowedCountries ELSE <<>>
    IN  \E i \in 1..Len(allowed) :
            \/ "country" \in DOMAIN r /\ allowed[i] = r.country
            \/ "isocode" \in DOMAIN r /\ allowed[i] = r.isocode

\* C28: a single-address check (address passed as a string) whose result has
\* proxy = "yes" returns block = "yes", with block_reason "vpn" for type VPN and
\* "proxy" otherwise, unless the result's country or isocode is in a non-empty
\* allowedCountries; with or without a country in the result.
C28_ProxyIsBlocked ==
    (SingleProxyResult /\ ~AllowedCountry)
        => /\ probeOut.value.block = "yes"
           /\ probeOut.value.block_reason
                  = IF "type" \in DOMAIN SentResult
                       /\ SentResult.type = "VPN"
                    THEN "vpn" ELSE "proxy"

\* the same for the results that carry a country and are not answers to an
\* email address with a disposable field
C28_ProxyIsBlockedWithCountry ==
    (/\ SingleProxyResult
     /\ "country" \in DOMAIN SentResult
     /\ ~(/\ Includes(SentAddress, "@")
          /\ "disposable" \in DOMAIN SentResult))
        => C28_ProxyIsBlocked


-----------------------------------------------------------------------------
(* Properties of query tagging (SpecCheck) *)

\* queryTagging is enabled and a customTag is present in the options of the call
TaggedCheck ==
    /\ CheckCalled
    /\ Flag(probeIn.options, "queryTagging")
    /\ TruthyText(probeIn.options, "customTag")
    /\ probeOut.httpCalls # <<>>

\* the request carries the tag: in its form data, or as tag=... in its URL
TransmitsTag(call, tag) ==
    \/ /\ "data" \in DOMAIN call
       /\ "tag" \in DOMAIN call.data
       /\ call.data.tag = Str(<<tag>>)
    \/ \E i \in 1..(Len(call.url.str) - 2) :
           SubSeq(call.url.str, i, i + 2) = <<"tag", "=", tag>>

\* C29: with queryTagging enabled and a customTag present, the request of a
\* check carries the tag, for a single-address lookup (GET) as for a batch (POST).
C29_TagIsTransmitted ==
    TaggedCheck => TransmitsTag(probeOut.httpCalls[1], probeIn.options.customTag)

\* the same for the batch lookups alone
C29_TagIsTransmittedInBatch ==
    (TaggedCheck /\ probeOut.httpCalls[1].method = "postForm")
        => TransmitsTag(probeOut.httpCalls[1], probeIn.options.customTag)

\* a tagged batch lookup was made
C29_TaggedBatch ==
    TaggedCheck /\ probeOut.httpCalls[1].method = "postForm"


-----------------------------------------------------------------------------
(* RulesService (services/rules.ts) and HttpClient.post                     *)
(*   an optional string argument is <<>> (left out) or <<tokens>>            *)

\* post(url, data, params, headers): the RequestConfig handed to request()
post(url, data, params, headers) ==
    [method |-> "POST", url |-> url]
        @@ (IF data # Undefined /\ data # Null THEN [data |-> data] ELSE <<>>)
        @@ (IF params # Undefined THEN [params |-> params] ELSE <<>>)
        @@ (IF headers # Undefined THEN [headers |-> headers] ELSE <<>>)

\* manageRule(action, name, conditions) up to the call on the HTTP client: the
\* options always parse (every field is a string of the schema's type); the
\* query parameters are the key; the post fields are joined unencoded; and
\* post is called with the URL, the data and the content-type object
manageRule(apiKey, action, name, conditions) ==
    LET ruleSelection == IF name = <<>> THEN <<>> ELSE name[1]
        ruleEntries == IF conditions = <<>> THEN <<>> ELSE conditions[1]
        postFields ==
            (IF ruleSelection # <<>> THEN << <<"name", "=">> \o ruleSelection >> ELSE <<>>)
            \o (IF ruleEntries # <<>> THEN << <<"data", "=">> \o ruleEntries >> ELSE <<>>)
        postData == IF postFields = <<>> THEN <<>>
                    ELSE IF Len(postFields) = 1 THEN postFields[1]
                    ELSE postFields[1] \o <<"&">> \o postFields[2]
        fullUrl == buildUrl(<<"dashboard", "/", "rules", "/", action, "/">>,
                            [key |-> Str(<<apiKey>>)])
    IN  IF Threw(validateConfiguration(apiKey)) THEN validateConfiguration(apiKey)
        ELSE Normal(post(fullUrl, Str(postData),
                         ("Content-Type" :> "application/x-www-form-urlencoded"),
                         Undefined))

\* addRule, setRule (name, conditions), removeRule, testRule (name) and
\* getRules () call manageRule, which starts request() with what post built
ManageRule(apiKey, action, name, conditions) ==
    LET prepared == manageRule(apiKey, action, name, conditions)
    IN  /\ pc \in {"idle", "done"}
        /\ probeIn' = [fn |-> "manageRule", apiKey |-> apiKey, action |-> action,
                       name |-> name, conditions |-> conditions]
        /\ IF Threw(prepared)
           THEN /\ probeOut' = [threw |-> prepared.threw, httpCalls |-> <<>>]
                /\ UNCHANGED <<userConfig, config, rateLimitInfo, pc, attempt, lastError,
                               timer, result, calls, sleepCount, lastOutcome, thrown,
                               env, managerConfig, flights, carrier>>
           ELSE /\ probeOut' = [httpCalls |-> <<prepared.value>>]
                /\ RequestCalled

NextRules ==
    \/ \E apiKey \in ApiKeys,
          name \in { <<<<"r", "_", "1">>>>, <<<<>>>> },
          conditions \in { <<<<"risk", " ", ">", " ", "5">>>>, <<<<>>>> } :
           \/ \E action \in {"add", "set"} : ManageRule(apiKey, action, name, conditions)
           \/ \E action \in {"remove", "test"} : ManageRule(apiKey, action, name, <<>>)
           \/ ManageRule(apiKey, "get", <<>>, <<>>)
    \/ \E response \in CheckResponses : AttemptSucceeds(response)
    \/ \E error \in CheckFailures : AttemptFails(error, 0)
    \/ SleepElapsed

\* the service on the engine of InitCheck
SpecRules == InitCheck /\ [][NextRules]_vars

-----------------------------------------------------------------------------
(* Properties of RulesService (SpecRules) *)

\* a rules request was handed to the HTTP client
RulesRequested ==
    /\ probeIn # Undefined
    /\ probeIn.fn = "manageRule"
    /\ probeOut.httpCalls # <<>>

\* the names of the fields of a body written as name=value&name=value
BodyFields(body) ==
    IF body = <<>> THEN {}
    ELSE { SplitOn(body, "&")[i][1] : i \in 1..Len(SplitOn(body, "&")) }

\* the request is a POST to the rules endpoint of the action, its URL has the
\* one query entry key, and its body has no field but name and data
RulesPostAsStated(call) ==
    /\ call.method = "POST"
    /\ PathOf(call.url.str) = <<"dashboard", "/", "rules", "/", probeIn.action, "/">>
    /\ QueryEntriesOf(call.url.str) = << <<"key", "=", probeIn.apiKey>> >>
    /\ BodyFields(call.data.str) \subseteq {"name", "data"}
    /\ (probeIn.name \notin {<<>>, <<<<>>>>}) => "name" \in BodyFields(call.data.str)
    /\ (probeIn.conditions \notin {<<>>, <<<<>>>>}) => "data" \in BodyFields(call.data.str)

\* C30: every rules request is a POST to the rules endpoint of its action, with
\* the form content type sent as a request header, a body made of the name
\* and/or data fields, and no query parameter but key.
C30_RulesRequestShape ==
    RulesRequested
        => LET call == probeOut.httpCalls[1]
           IN  /\ RulesPostAsStated(call)
               /\ "headers" \in DOMAIN call
               /\ "Content-Type" \in DOMAIN call.headers
               /\ call.headers["Content-Type"] = "application/x-www-form-urlencoded"
               /\ "params" \in DOMAIN call => DOMAIN call.params \subseteq {"key"}

\* the same without the content type: method, endpoint, URL query and body
C30_RulesPostShape ==
    RulesRequested => RulesPostAsStated(probeOut.httpCalls[1])

\* the content type travels as a query parameter and no header is given
C30_ContentTypeAsParameter ==
    RulesRequested
        => /\ "headers" \notin DOMAIN probeOut.httpCalls[1]
           /\ "Content-Type" \in DOMAIN probeOut.httpCalls[1].params

====
